---- MODULE Spec2Model ----
(***************************************************************************)
(* Tic-Tac-Toe AI (src/src/js/ai.js, class AIPlayer), the game loop that  *)
(* drives it (src/tests/helpers.js, AITestHelpers.playFullGame), the game  *)
(* logic (src/src/js/ui.js, modules utils and game, class GameState) and   *)
(* the page (src/src/js/ui.js, class UIManager).                           *)
(*                                                                         *)
(* Specifications: Spec (a full game against the AI), SpecMove (one        *)
(* getMove call), SpecFrame (one getMove call, arrays on the heap),        *)
(* SpecArgs (getMove with malformed arguments), SpecGame (a GameState      *)
(* under makeMove and resetGame calls), SpecOracle (the two winner checks  *)
(* on every cell assignment), SpecUI (the page under clicks and timer      *)
(* callbacks), SpecSearch (one getAIMove call of the page), SpecJSON (a     *)
(* GameState saved with toJSON and restored with fromJSON), SpecGenerator  *)
(* (the lists of available moves), SpecCoords (the conversions between an  *)
(* index and a row and column), SpecStack (the hard search, one _minimax   *)
(* call or return at a time).                                              *)
(*                                                                         *)
(* A board is board[row][col] with row, col in 0..2, as in ai.js.  An      *)
(* empty cell is the falsy value '' (ai.js treats null and '' alike).      *)
(* A move is the record {row, col} that getMove returns.                   *)
(***************************************************************************)
EXTENDS Integers, Sequences, FiniteSets, TLC

VARIABLES
  board,           \* the board: the argument of getMove, the board of the game loop;
                   \* the argument of the first conversion in SpecCoords
  difficulty,      \* this.difficulty of the AIPlayer
  playerSymbol,    \* the AI's symbol
  opponentSymbol,  \* the other side's symbol
  currentPlayer,   \* playFullGame: whose turn it is
  move,            \* the move returned by the last getMove / made last in the game
  scores,          \* _getMiniMaxMove: the value of its local score for each candidate, in loop order
  error,           \* the message of the error the last call threw, "" if none or once caught
  winner,          \* playFullGame: result.winner; the value of the last _checkWinner call
  pc,              \* "call", "return", "throw" for one getMove call; "playing", "done" for the game loop;
                   \* "moved" after getAIMove; "page" for the page; "search" inside
                   \* _getMiniMaxMove; the name of the method called last elsewhere
  gameState,       \* the fields of the GameState object
  result,          \* the value the last method call returned, Null if none; the locals
                   \* bestScore and bestMove of _getMiniMaxMove while it runs
  heap,            \* the row arrays of the boards getMove works on, by address
  ui,              \* the fields of the UIManager object, its board class and its pending timers
  stack            \* the activation records of the _minimax calls in progress, outermost first

vars == <<board, difficulty, playerSymbol, opponentSymbol,
          currentPlayer, move, scores, error, winner, pc, gameState, result, heap, ui,
          stack>>

(***************************************************************************)
(* Values                                                                  *)
(***************************************************************************)
Empty == ""
Null == "null"
NoMove == [row |-> -1, col |-> -1]
NegInfinity == -1000
PosInfinity == 1000

Idx == 0..2
Symbols == {"X", "O"}
validDifficulties == {"easy", "medium", "hard"}

Max(a, b) == IF a >= b THEN a ELSE b
Min(a, b) == IF a <= b THEN a ELSE b

\* Math.floor(Math.random() * n): Math.random() is in [0, 1), so any index 0..n-1
RandomIndex(n) == 0..(n - 1)

EmptyBoard == [r \in Idx |-> [c \in Idx |-> Empty]]
AllBoards == [Idx -> [Idx -> Symbols \cup {Empty}]]

\* The iteration order of "for row in 0..2, for col in 0..2"
AllCells == << [row |-> 0, col |-> 0], [row |-> 0, col |-> 1], [row |-> 0, col |-> 2],
               [row |-> 1, col |-> 0], [row |-> 1, col |-> 1], [row |-> 1, col |-> 2],
               [row |-> 2, col |-> 0], [row |-> 2, col |-> 1], [row |-> 2, col |-> 2] >>

(***************************************************************************)
(* AIPlayer helpers                                                        *)
(***************************************************************************)
_getAvailableMoves(b) ==
  SelectSeq(AllCells, LAMBDA m : b[m.row][m.col] = Empty)

_isBoardFull(b) == Len(_getAvailableMoves(b)) = 0

\* [...row]: a new row with the same three cells
CloneRow(row) == (0 :> row[0]) @@ (1 :> row[1]) @@ (2 :> row[2])

\* board.map(row => [...row])
_cloneBoard(b) == (0 :> CloneRow(b[0])) @@ (1 :> CloneRow(b[1])) @@ (2 :> CloneRow(b[2]))

RowComplete(b, row) ==
  b[row][0] # Empty /\ b[row][0] = b[row][1] /\ b[row][1] = b[row][2]

\* Variant: the third cell of the column is not compared
ColCompleteTwoCells(b, col) ==
  b[0][col] # Empty /\ b[0][col] = b[1][col]

ColComplete(b, col) ==
  b[0][col] # Empty /\ b[0][col] = b[1][col] /\ b[1][col] = b[2][col]

_checkWinner(b) ==
  IF RowComplete(b, 0) THEN b[0][0]
  ELSE IF RowComplete(b, 1) THEN b[1][0]
  ELSE IF RowComplete(b, 2) THEN b[2][0]
  ELSE IF ColComplete(b, 0) THEN b[0][0]
  ELSE IF ColComplete(b, 1) THEN b[0][1]
  ELSE IF ColComplete(b, 2) THEN b[0][2]
  ELSE IF b[0][0] # Empty /\ b[0][0] = b[1][1] /\ b[1][1] = b[2][2] THEN b[0][0]
  ELSE IF b[0][2] # Empty /\ b[0][2] = b[1][1] /\ b[1][1] = b[2][0] THEN b[0][2]
  ELSE Null

\* newBoard = clone(board); newBoard[move.row][move.col] = symbol
PlaceOnCopy(b, m, symbol) == [_cloneBoard(b) EXCEPT ![m.row][m.col] = symbol]

_validateBoard(b) ==
  IF DOMAIN b # Idx THEN "Board must be a 3x3 array"
  ELSE IF \E r \in Idx : DOMAIN b[r] # Idx THEN "Each row must contain exactly 3 cells"
  ELSE ""

\* Variant: equal symbols are let through
_validateSymbolsAllowsEqual(ps, os) ==
  IF ps = Empty \/ os = Empty THEN "Player and opponent symbols must be provided"
  ELSE ""

\* A missing symbol (undefined, null, '') is the falsy value ''
_validateSymbols(ps, os) ==
  IF ps = Empty \/ os = Empty THEN "Player and opponent symbols must be provided"
  ELSE IF ps = os THEN "Player and opponent must have different symbols"
  ELSE ""

(***************************************************************************)
(* Hard: minimax with alpha-beta pruning                                   *)
(***************************************************************************)
RECURSIVE _minimax(_, _, _, _, _, _, _)
RECURSIVE MaxLoop(_, _, _, _, _, _, _, _, _)
RECURSIVE MinLoop(_, _, _, _, _, _, _, _, _)

\* Variants of the terminal scores: a win that is worth more the later it comes,
\* and a loss scored as a draw.
WinScoreSlowest(depth) == 10 + depth
LossScoreZero(depth) == 0

\* Terminal scores of _minimax
WinScore(depth) == 10 - depth
LossScore(depth) == depth - 10

\* Variant of the pruning test: a cutoff as soon as the window is below 9 wide
CutoffEarly(alpha, beta) == beta <= alpha + 8

\* The pruning tests "if (beta <= alpha) break"
Cutoff(alpha, beta) == beta <= alpha

\* The maximizing branch's loop, from candidate i on
MaxLoop(b, depth, ps, os, alpha, beta, moves, i, maxScore) ==
  IF i > Len(moves) THEN maxScore
  ELSE LET score == _minimax(PlaceOnCopy(b, moves[i], ps), depth + 1, FALSE, ps, os, alpha, beta)
           maxScore2 == Max(maxScore, score)
           alpha2 == Max(alpha, score)
       IN IF Cutoff(alpha2, beta) THEN maxScore2
          ELSE MaxLoop(b, depth, ps, os, alpha2, beta, moves, i + 1, maxScore2)

\* The minimizing branch's loop, from candidate i on
MinLoop(b, depth, ps, os, alpha, beta, moves, i, minScore) ==
  IF i > Len(moves) THEN minScore
  ELSE LET score == _minimax(PlaceOnCopy(b, moves[i], os), depth + 1, TRUE, ps, os, alpha, beta)
           minScore2 == Min(minScore, score)
           beta2 == Min(beta, score)
       IN IF Cutoff(alpha, beta2) THEN minScore2
          ELSE MinLoop(b, depth, ps, os, alpha, beta2, moves, i + 1, minScore2)

_minimax(b, depth, isMaximizing, ps, os, alpha, beta) ==
  LET w == _checkWinner(b) IN
  IF w = ps THEN WinScore(depth)
  ELSE IF w = os THEN LossScore(depth)
  ELSE IF _isBoardFull(b) THEN 0
  ELSE IF isMaximizing
       THEN MaxLoop(b, depth, ps, os, alpha, beta, _getAvailableMoves(b), 1, NegInfinity)
       ELSE MinLoop(b, depth, ps, os, alpha, beta, _getAvailableMoves(b), 1, PosInfinity)

\* Variant: the search of a candidate starts at depth 1
CandidateScoreFromDepthOne(b, m, ps, os) ==
  _minimax(PlaceOnCopy(b, m, ps), 1, FALSE, ps, os, NegInfinity, PosInfinity)

\* The score _getMiniMaxMove gives to candidate m
CandidateScore(b, m, ps, os) ==
  _minimax(PlaceOnCopy(b, m, ps), 0, FALSE, ps, os, NegInfinity, PosInfinity)

\* Variant of the comparison: a tie replaces the best move
ImprovesOrTies(score, bestScore) == score >= bestScore

\* "if (score > bestScore)"
Improves(score, bestScore) == score > bestScore

RECURSIVE BestLoop(_, _, _, _, _, _)
\* The loop of _getMiniMaxMove from candidate i on; best holds the locals bestScore
\* and bestMove, and scores, the values of score in the iterations so far.
BestLoop(b, ps, os, moves, i, best) ==
  IF i > Len(moves) THEN best
  ELSE LET score == CandidateScore(b, moves[i], ps, os)
       IN BestLoop(b, ps, os, moves, i + 1,
                   IF Improves(score, best.bestScore)
                   THEN [bestScore |-> score, bestMove |-> moves[i],
                         scores |-> Append(best.scores, score)]
                   ELSE [best EXCEPT !.scores = Append(best.scores, score)])

\* The result is [move, scores]: the move returned, and the candidate scores computed.
_getMiniMaxMove(b, ps, os) ==
  LET availableMoves == _getAvailableMoves(b)
      best == BestLoop(b, ps, os, availableMoves, 1,
                       [bestScore |-> NegInfinity, bestMove |-> NoMove, scores |-> <<>>])
  IN [move |-> IF best.bestMove # NoMove THEN best.bestMove ELSE availableMoves[1],
      scores |-> best.scores]

(***************************************************************************)
(* Easy and medium                                                         *)
(***************************************************************************)
\* Easy, medium and getMove yield the set of moves the call can return, one for
\* each value Math.random() can take.
\* Variant: the random index is taken in the cells of the board
_getRandomMoveOfBoard(availableMoves) ==
  {AllCells[randomIndex + 1] : randomIndex \in RandomIndex(Len(availableMoves))}

_getRandomMove(availableMoves) ==
  {availableMoves[randomIndex + 1] : randomIndex \in RandomIndex(Len(availableMoves))}

RECURSIVE FindLoop(_, _, _, _)
FindLoop(b, symbol, moves, i) ==
  IF i > Len(moves) THEN NoMove
  ELSE IF _checkWinner(PlaceOnCopy(b, moves[i], symbol)) = symbol THEN moves[i]
  ELSE FindLoop(b, symbol, moves, i + 1)

\* Variant: the available moves are scanned from the last to the first
_findWinningMoveFromLast(b, symbol, availableMoves) ==
  FindLoop(b, symbol,
           [i \in 1..Len(availableMoves) |-> availableMoves[Len(availableMoves) + 1 - i]], 1)

\* NoMove stands for the null result
_findWinningMove(b, symbol, availableMoves) == FindLoop(b, symbol, availableMoves, 1)

IsCenter(m) == m.row = 1 /\ m.col = 1

\* Variant: "||" between the row and the column test
IsCornerOrBorder(m) == (m.row = 0 \/ m.row = 2) \/ (m.col = 0 \/ m.col = 2)

IsCorner(m) == (m.row = 0 \/ m.row = 2) /\ (m.col = 0 \/ m.col = 2)

\* Variant: the block is looked for before the win
_getMediumMoveBlockFirst(b, ps, os, availableMoves) ==
  LET winningMove == _findWinningMove(b, ps, availableMoves)
      blockingMove == _findWinningMove(b, os, availableMoves)
      centerMoves == SelectSeq(availableMoves, IsCenter)
      corners == SelectSeq(availableMoves, IsCorner)
  IN IF blockingMove # NoMove THEN {blockingMove}
     ELSE IF winningMove # NoMove THEN {winningMove}
     ELSE IF Len(centerMoves) > 0 THEN {centerMoves[1]}
     ELSE IF Len(corners) > 0 THEN {corners[i + 1] : i \in RandomIndex(Len(corners))}
     ELSE _getRandomMove(availableMoves)

\* Variant: no block
_getMediumMoveNoBlock(b, ps, os, availableMoves) ==
  LET winningMove == _findWinningMove(b, ps, availableMoves)
      centerMoves == SelectSeq(availableMoves, IsCenter)
      corners == SelectSeq(availableMoves, IsCorner)
  IN IF winningMove # NoMove THEN {winningMove}
     ELSE IF Len(centerMoves) > 0 THEN {centerMoves[1]}
     ELSE IF Len(corners) > 0 THEN {corners[i + 1] : i \in RandomIndex(Len(corners))}
     ELSE _getRandomMove(availableMoves)

_getMediumMove(b, ps, os, availableMoves) ==
  LET winningMove == _findWinningMove(b, ps, availableMoves)
      blockingMove == _findWinningMove(b, os, availableMoves)
      centerMoves == SelectSeq(availableMoves, IsCenter)
      corners == SelectSeq(availableMoves, IsCorner)
  IN IF winningMove # NoMove THEN {winningMove}
     ELSE IF blockingMove # NoMove THEN {blockingMove}
     ELSE IF Len(centerMoves) > 0 THEN {centerMoves[1]}
     ELSE IF Len(corners) > 0 THEN {corners[i + 1] : i \in RandomIndex(Len(corners))}
     ELSE _getRandomMove(availableMoves)

Throw(message) == [error |-> message, moves |-> {}, scores |-> <<>>]
Return(moveSet) == [error |-> "", moves |-> moveSet, scores |-> <<>>]

\* getMove of an AIPlayer whose difficulty is d.
\* The result is [error, moves, scores]: error # "" when getMove throws; otherwise
\* moves is the set of moves the call can return, and scores the candidate scores
\* of the hard search (empty for the other difficulties).
getMove(d, b, ps, os) ==
  IF _validateBoard(b) # "" THEN Throw(_validateBoard(b))
  ELSE IF _validateSymbols(ps, os) # "" THEN Throw(_validateSymbols(ps, os))
  ELSE LET availableMoves == _getAvailableMoves(b) IN
       IF Len(availableMoves) = 0
       THEN Throw("No available moves on the board")
       ELSE CASE d = "easy" -> Return(_getRandomMove(availableMoves))
              [] d = "medium" -> Return(_getMediumMove(b, ps, os, availableMoves))
              [] d = "hard" -> LET hard == _getMiniMaxMove(b, ps, os)
                               IN [error |-> "", moves |-> {hard.move}, scores |-> hard.scores]
              [] OTHER -> Return(_getRandomMove(availableMoves))

(***************************************************************************)
(* utils (src/src/js/ui.js, module utils)                                  *)
(*                                                                         *)
(* GameState keeps its board flat: cell index = row * 3 + col, 0..8.       *)
(* A number passed as a position is [whole, isInteger]: an integer, or a   *)
(* non-integer between whole and whole + 1 (1.5 is Num(1, FALSE)).         *)
(***************************************************************************)
BOARD_SIZE == 3
PLAYER_X == "X"
PLAYER_O == "O"
EMPTY_CELL == ""
STATUS_PLAYING == "playing"
STATUS_WIN == "win"
STATUS_DRAW == "draw"

WINNING_COMBINATIONS == << <<0, 1, 2>>, <<3, 4, 5>>, <<6, 7, 8>>,
                           <<0, 3, 6>>, <<1, 4, 7>>, <<2, 5, 8>>,
                           <<0, 4, 8>>, <<2, 4, 6>> >>

Num(whole, isInteger) == [whole |-> whole, isInteger |-> isInteger]

\* For a non-integer x with floor w: x >= 0 iff w >= 0, and x < 3 iff w < 3
isValidPosition(row, col) ==
  /\ row.isInteger
  /\ col.isInteger
  /\ row.whole >= 0
  /\ row.whole < BOARD_SIZE
  /\ col.whole >= 0
  /\ col.whole < BOARD_SIZE

\* Called on valid positions only (the callers test isValidPosition first)
coordinatesToIndex(row, col) == row.whole * BOARD_SIZE + col.whole

\* coordinatesToIndex as its callers outside GameState see it: [error, value],
\* error # "" when it throws
coordinatesToIndexCall(row, col) ==
  IF ~isValidPosition(row, col)
  THEN [error |-> "Invalid position", value |-> Num(0, TRUE)]
  ELSE [error |-> "", value |-> Num(row.whole * BOARD_SIZE + col.whole, TRUE)]

\* Variant: the quotient is the column and the remainder the row
indexToCoordinatesSwapped(index) ==
  IF ~index.isInteger \/ index.whole < 0 \/ index.whole >= BOARD_SIZE * BOARD_SIZE
  THEN [error |-> "Invalid index", row |-> Num(0, TRUE), col |-> Num(0, TRUE)]
  ELSE [error |-> "",
        row |-> Num(index.whole % BOARD_SIZE, TRUE),
        col |-> Num(index.whole \div BOARD_SIZE, TRUE)]

\* indexToCoordinates: [error, row, col], error # "" when it throws.  On the
\* indexes it accepts Math.floor(index / 3) is the integer quotient and
\* index % 3 the remainder.
indexToCoordinates(index) ==
  IF ~index.isInteger \/ index.whole < 0 \/ index.whole >= BOARD_SIZE * BOARD_SIZE
  THEN [error |-> "Invalid index", row |-> Num(0, TRUE), col |-> Num(0, TRUE)]
  ELSE [error |-> "",
        row |-> Num(index.whole \div BOARD_SIZE, TRUE),
        col |-> Num(index.whole % BOARD_SIZE, TRUE)]

isCellEmpty(cell) == cell = EMPTY_CELL

isValidPlayer(player) == player = PLAYER_X \/ player = PLAYER_O

\* Called on valid players only
getOppositePlayer(player) == IF player = PLAYER_X THEN PLAYER_O ELSE PLAYER_X

createEmptyBoard == [i \in 0..(BOARD_SIZE * BOARD_SIZE - 1) |-> EMPTY_CELL]

countEmptyCells(b) == Cardinality({i \in DOMAIN b : isCellEmpty(b[i])})

(***************************************************************************)
(* GameState (src/src/js/ui.js, module game)                               *)
(*                                                                         *)
(* gs is the record of the object's fields.  A null _winningCombination is *)
(* the empty tuple; a thrown error is its message without the values it    *)
(* quotes.                                                                 *)
(***************************************************************************)
NoCombination == << >>

\* constructor
NewGameState ==
  [_board |-> createEmptyBoard,
   _currentPlayer |-> PLAYER_X,
   _gameStatus |-> STATUS_PLAYING,
   _winner |-> Null,
   _winningCombination |-> NoCombination,
   _moveHistory |-> << >>]

\* Variant: only a draw counts as the end of the game
isGameOverOnDraw(gs) == gs._gameStatus = STATUS_DRAW

isGameOver(gs) == gs._gameStatus # STATUS_PLAYING

\* Variant: the occupied-cell test is left out
_validateMoveIgnoringOccupied(gs, row, col) ==
  IF isGameOver(gs) THEN "Game is already over"
  ELSE IF ~isValidPosition(row, col) THEN "Invalid position"
  ELSE ""

\* The error of the validation result; "" when valid
_validateMove(gs, row, col) ==
  IF isGameOver(gs) THEN "Game is already over"
  ELSE IF ~isValidPosition(row, col) THEN "Invalid position"
  ELSE IF ~isCellEmpty(gs._board[coordinatesToIndex(row, col)]) THEN "Cell is already occupied"
  ELSE ""

\* The test of checkWin's loop for one combination
CombinationComplete(b, combination) ==
  /\ b[combination[1]] # EMPTY_CELL
  /\ b[combination[1]] = b[combination[2]]
  /\ b[combination[1]] = b[combination[3]]

\* Variant: only the three rows are looked at
CompleteCombinationsRowsOnly(b) ==
  {n \in 1..3 : CombinationComplete(b, WINNING_COMBINATIONS[n])}

\* The numbers of the complete combinations, in the order of WINNING_COMBINATIONS
CompleteCombinations(b) ==
  {n \in 1..Len(WINNING_COMBINATIONS) : CombinationComplete(b, WINNING_COMBINATIONS[n])}

\* GameState.checkWin: [value, gs], the value returned and the object after the
\* call (the first complete combination is stored in _winningCombination)
GameStateCheckWin(gs) ==
  LET found == CompleteCombinations(gs._board) IN
  IF found # {}
  THEN [value |-> TRUE,
        gs |-> [gs EXCEPT !._winningCombination =
                  WINNING_COMBINATIONS[CHOOSE n \in found : \A k \in found : n <= k]]]
  ELSE [value |-> FALSE, gs |-> gs]

\* Variant: the full-board test is left out
checkDrawWithoutCount(gs) == ~GameStateCheckWin(gs).value

\* checkDraw is called where checkWin has just returned false, and then changes nothing
checkDraw(gs) == countEmptyCells(gs._board) = 0 /\ ~GameStateCheckWin(gs).value

\* Variant: the player is not switched
switchPlayerNever(gs) == gs

switchPlayer(gs) == [gs EXCEPT !._currentPlayer = getOppositePlayer(gs._currentPlayer)]

\* makeMove after a successful validation: the move is executed and recorded
ExecuteMove(gs, row, col) ==
  [gs EXCEPT !._board[coordinatesToIndex(row, col)] = gs._currentPlayer,
             !._moveHistory = Append(gs._moveHistory,
                                     [row |-> row.whole, col |-> col.whole,
                                      player |-> gs._currentPlayer,
                                      moveNumber |-> Len(gs._moveHistory) + 1])]

\* makeMove: [error, gs]; error # "" when it throws
makeMove(gs, row, col) ==
  IF _validateMove(gs, row, col) # ""
  THEN [error |-> _validateMove(gs, row, col), gs |-> gs]
  ELSE LET moved == ExecuteMove(gs, row, col)
           win == GameStateCheckWin(moved)
       IN IF win.value
          THEN [error |-> "",
                gs |-> [win.gs EXCEPT !._gameStatus = STATUS_WIN,
                                      !._winner = moved._currentPlayer]]
          ELSE IF checkDraw(moved)
          THEN [error |-> "", gs |-> [moved EXCEPT !._gameStatus = STATUS_DRAW]]
          ELSE [error |-> "", gs |-> switchPlayer(moved)]

\* Variant: the current player is not reset
resetGameKeepsPlayer(gs) ==
  [gs EXCEPT !._board = createEmptyBoard,
             !._gameStatus = STATUS_PLAYING,
             !._winner = Null,
             !._winningCombination = NoCombination,
             !._moveHistory = << >>]

resetGame(gs) ==
  [gs EXCEPT !._board = createEmptyBoard,
             !._currentPlayer = PLAYER_X,
             !._gameStatus = STATUS_PLAYING,
             !._winner = Null,
             !._winningCombination = NoCombination,
             !._moveHistory = << >>]

\* Variant: the loop starts at index 1
getAvailableMovesFromOne(gs) ==
  SelectSeq([k \in 1..(BOARD_SIZE * BOARD_SIZE - 1) |->
               [row |-> k \div BOARD_SIZE, col |-> k % BOARD_SIZE, index |-> k]],
            LAMBDA m : isCellEmpty(gs._board[m.index]))

\* getAvailableMoves: the array of {row, col, index} it returns, the loop running
\* over i = 0..8
getAvailableMoves(gs) ==
  SelectSeq([k \in 1..(BOARD_SIZE * BOARD_SIZE) |->
               [row |-> (k - 1) \div BOARD_SIZE, col |-> (k - 1) % BOARD_SIZE,
                index |-> k - 1]],
            LAMBDA m : isCellEmpty(gs._board[m.index]))

\* getMoveCount
getMoveCount(gs) == Len(gs._moveHistory)

\* getBoard, getMoveHistory: [...array], a new array with the same elements
getBoard(gs) == [i \in DOMAIN gs._board |-> gs._board[i]]
getMoveHistory(gs) == [k \in DOMAIN gs._moveHistory |-> gs._moveHistory[k]]

\* Variant: the winner is left out of the object
toJSONWithoutWinner(gs) ==
  [board |-> getBoard(gs),
   currentPlayer |-> gs._currentPlayer,
   gameStatus |-> gs._gameStatus,
   winner |-> Null,
   winningCombination |-> gs._winningCombination,
   moveHistory |-> getMoveHistory(gs),
   moveCount |-> getMoveCount(gs)]

\* toJSON: the object it returns
toJSON(gs) ==
  [board |-> getBoard(gs),
   currentPlayer |-> gs._currentPlayer,
   gameStatus |-> gs._gameStatus,
   winner |-> gs._winner,
   winningCombination |-> gs._winningCombination,
   moveHistory |-> getMoveHistory(gs),
   moveCount |-> getMoveCount(gs)]

\* fromJSON(state): [error, gs].  state is an object with the six fields; a field
\* that is absent is the falsy value of its kind ("", Null, NoCombination, << >>).
fromJSON(gs, state) ==
  IF DOMAIN state.board # 0..(BOARD_SIZE * BOARD_SIZE - 1)
  THEN [error |-> "Invalid board state", gs |-> gs]
  ELSE IF ~isValidPlayer(state.currentPlayer)
  THEN [error |-> "Invalid current player", gs |-> gs]
  ELSE [error |-> "",
        gs |-> [_board |-> [i \in DOMAIN state.board |-> state.board[i]],
                _currentPlayer |-> state.currentPlayer,
                _gameStatus |-> IF state.gameStatus # "" THEN state.gameStatus
                                ELSE STATUS_PLAYING,
                _winner |-> state.winner,
                _winningCombination |-> state.winningCombination,
                _moveHistory |-> state.moveHistory]]

(***************************************************************************)
(* UIManager (src/src/js/ui.js, class UIManager)                           *)
(*                                                                         *)
(* u is the record of the object's fields (board, currentPlayer, gameMode, *)
(* aiDifficulty, moveCount, isGameActive, scores, winningCells) together   *)
(* with what it keeps in the page and in the event loop: boardDisabled,    *)
(* the class 'board-disabled' of the game board element, and timers, the   *)
(* number of makeAIMove callbacks that setTimeout holds.  The callbacks    *)
(* are one closure over the same object, so their number is all there is   *)
(* to know about them.  Texts, labels, focus and the stored copy of the    *)
(* scores are written and never read back by the game.                     *)
(*                                                                         *)
(* A winningCells that is null or not yet set is the empty tuple.          *)
(***************************************************************************)
PVP == "pvp"
PVAI == "pvai"
NoCells == << >>

\* initializeBoard: a new array of three new rows
initializeBoard == [r \in Idx |-> [c \in Idx |-> Empty]]

\* isBoardFull
isBoardFull(u) == \A r \in Idx : \A c \in Idx : u.board[r][c] # Empty

\* The test of checkWinner for the line of the cells c1, c2, c3
LineComplete(b, c1, c2, c3) ==
  /\ b[c1[1]][c1[2]] # Empty
  /\ b[c1[1]][c1[2]] = b[c2[1]][c2[2]]
  /\ b[c2[1]][c2[2]] = b[c3[1]][c3[2]]

\* "this.winningCells = [c1, c2, c3]; return this.board[c1]"
LineFound(u, c1, c2, c3) ==
  [value |-> u.board[c1[1]][c1[2]], u |-> [u EXCEPT !.winningCells = <<c1, c2, c3>>]]

\* checkWinner without the two diagonals
checkWinnerWithoutDiagonals(u) ==
  IF LineComplete(u.board, <<0, 0>>, <<0, 1>>, <<0, 2>>)
  THEN LineFound(u, <<0, 0>>, <<0, 1>>, <<0, 2>>)
  ELSE IF LineComplete(u.board, <<1, 0>>, <<1, 1>>, <<1, 2>>)
  THEN LineFound(u, <<1, 0>>, <<1, 1>>, <<1, 2>>)
  ELSE IF LineComplete(u.board, <<2, 0>>, <<2, 1>>, <<2, 2>>)
  THEN LineFound(u, <<2, 0>>, <<2, 1>>, <<2, 2>>)
  ELSE IF LineComplete(u.board, <<0, 0>>, <<1, 0>>, <<2, 0>>)
  THEN LineFound(u, <<0, 0>>, <<1, 0>>, <<2, 0>>)
  ELSE IF LineComplete(u.board, <<0, 1>>, <<1, 1>>, <<2, 1>>)
  THEN LineFound(u, <<0, 1>>, <<1, 1>>, <<2, 1>>)
  ELSE IF LineComplete(u.board, <<0, 2>>, <<1, 2>>, <<2, 2>>)
  THEN LineFound(u, <<0, 2>>, <<1, 2>>, <<2, 2>>)
  ELSE [value |-> Null, u |-> u]

\* checkWinner: [value, u], the symbol returned (Null for null) and the object
\* after the call: the cells of the line found are stored in winningCells
checkWinner(u) ==
  IF LineComplete(u.board, <<0, 0>>, <<0, 1>>, <<0, 2>>)
  THEN LineFound(u, <<0, 0>>, <<0, 1>>, <<0, 2>>)
  ELSE IF LineComplete(u.board, <<1, 0>>, <<1, 1>>, <<1, 2>>)
  THEN LineFound(u, <<1, 0>>, <<1, 1>>, <<1, 2>>)
  ELSE IF LineComplete(u.board, <<2, 0>>, <<2, 1>>, <<2, 2>>)
  THEN LineFound(u, <<2, 0>>, <<2, 1>>, <<2, 2>>)
  ELSE IF LineComplete(u.board, <<0, 0>>, <<1, 0>>, <<2, 0>>)
  THEN LineFound(u, <<0, 0>>, <<1, 0>>, <<2, 0>>)
  ELSE IF LineComplete(u.board, <<0, 1>>, <<1, 1>>, <<2, 1>>)
  THEN LineFound(u, <<0, 1>>, <<1, 1>>, <<2, 1>>)
  ELSE IF LineComplete(u.board, <<0, 2>>, <<1, 2>>, <<2, 2>>)
  THEN LineFound(u, <<0, 2>>, <<1, 2>>, <<2, 2>>)
  ELSE IF LineComplete(u.board, <<0, 0>>, <<1, 1>>, <<2, 2>>)
  THEN LineFound(u, <<0, 0>>, <<1, 1>>, <<2, 2>>)
  ELSE IF LineComplete(u.board, <<0, 2>>, <<1, 1>>, <<2, 0>>)
  THEN LineFound(u, <<0, 2>>, <<1, 1>>, <<2, 0>>)
  ELSE [value |-> Null, u |-> u]

\* "board[row][col] = symbol" for the cell m, on the board of the object: the
\* board passed to minimax is this.board itself
SetCell(u, m, symbol) == [u EXCEPT !.board[m.row][m.col] = symbol]

\* Variant: the move is not taken back
TakeBackNothing(u, m) == u

\* "board[row][col] = ''" after the recursive call
TakeBack(u, m) == SetCell(u, m, Empty)

RECURSIVE minimax(_, _, _)
RECURSIVE MinimaxLoop(_, _, _, _, _, _)

\* The loops of minimax from cell i (in row-major order) on: the move is made
\* on the board of the object, scored, and taken back.  The result is
\* [score, u, restored]; restored tells that every minimax call made so far
\* returned with the board it was entered with.
MinimaxLoop(u, depth, isMaximizing, i, bestScore, restored) ==
  IF i > Len(AllCells) THEN [score |-> bestScore, u |-> u, restored |-> restored]
  ELSE IF u.board[AllCells[i].row][AllCells[i].col] # Empty
  THEN MinimaxLoop(u, depth, isMaximizing, i + 1, bestScore, restored)
  ELSE LET r == minimax(SetCell(u, AllCells[i], IF isMaximizing THEN "O" ELSE "X"),
                        depth + 1, ~isMaximizing)
       IN MinimaxLoop(TakeBack(r.u, AllCells[i]), depth, isMaximizing, i + 1,
                      IF isMaximizing THEN Max(r.score, bestScore)
                      ELSE Min(r.score, bestScore),
                      restored /\ r.restored)

\* minimax(board, depth, isMaximizing), where board is this.board:
\* [score, u, restored], the score returned, the object after the call, and
\* whether this call and every call within it returned with the board it was
\* entered with
minimax(u, depth, isMaximizing) ==
  LET w == checkWinner(u) IN
  IF w.value = "O" THEN [score |-> 10 - depth, u |-> w.u, restored |-> TRUE]
  ELSE IF w.value = "X" THEN [score |-> depth - 10, u |-> w.u, restored |-> TRUE]
  ELSE IF isBoardFull(w.u) THEN [score |-> 0, u |-> w.u, restored |-> TRUE]
  ELSE LET r == MinimaxLoop(w.u, depth, isMaximizing, 1,
                            IF isMaximizing THEN NegInfinity ELSE PosInfinity, TRUE)
       IN [r EXCEPT !.restored = r.restored /\ r.u.board = u.board]

RECURSIVE BestMoveLoop(_, _, _, _, _)
\* The loop of getBestMove from cell i on
BestMoveLoop(u, i, bestScore, bestMove, restored) ==
  IF i > Len(AllCells) THEN [move |-> bestMove, u |-> u, restored |-> restored]
  ELSE IF u.board[AllCells[i].row][AllCells[i].col] # Empty
  THEN BestMoveLoop(u, i + 1, bestScore, bestMove, restored)
  ELSE LET r == minimax(SetCell(u, AllCells[i], "O"), 0, FALSE)
       IN BestMoveLoop(TakeBack(r.u, AllCells[i]), i + 1,
                       IF r.score > bestScore THEN r.score ELSE bestScore,
                       IF r.score > bestScore THEN AllCells[i] ELSE bestMove,
                       restored /\ r.restored)

\* getBestMove: [move, u, restored], the move returned (NoMove for null), the
\* object after the call, and whether every minimax call returned with the
\* board it was entered with
getBestMove(u) == BestMoveLoop(u, 1, NegInfinity, NoMove, TRUE)

\* getRandomMove: the moves it can return, one for each value of Math.random();
\* {NoMove} for null
getRandomMove(u) ==
  LET available == SelectSeq(AllCells, LAMBDA m : u.board[m.row][m.col] = Empty)
  IN IF Len(available) > 0
     THEN {available[randomIndex + 1] : randomIndex \in RandomIndex(Len(available))}
     ELSE {NoMove}

\* getAIMove: the results [move, u, restored] it can have, one for each value of
\* Math.random(); getRandomMove writes nothing
getAIMove(u) ==
  IF u.aiDifficulty = "easy"
  THEN {[move |-> m, u |-> u, restored |-> TRUE] : m \in getRandomMove(u)}
  ELSE IF u.aiDifficulty = "medium"
  THEN {getBestMove(u)}
         \cup {[move |-> m, u |-> u, restored |-> TRUE] : m \in getRandomMove(u)}
  ELSE {getBestMove(u)}

\* disableBoardWhileAIThinks, enableBoard, disableBoard
disableBoardWhileAIThinks(u) == [u EXCEPT !.boardDisabled = TRUE]
enableBoard(u) == [u EXCEPT !.boardDisabled = FALSE]
disableBoard(u) == [u EXCEPT !.boardDisabled = TRUE]

\* displayWinner(player)
displayWinner(u, player) ==
  disableBoard([u EXCEPT !.isGameActive = FALSE,
                         !.scores = IF player = "X"
                                    THEN [u.scores EXCEPT !.x = u.scores.x + 1]
                                    ELSE [u.scores EXCEPT !.o = u.scores.o + 1]])

\* displayDraw
displayDraw(u) ==
  disableBoard([u EXCEPT !.isGameActive = FALSE,
                         !.scores = [u.scores EXCEPT !.draws = u.scores.draws + 1]])

\* makeAIMove: the board is marked disabled and the callback handed to setTimeout
makeAIMove(u) == [disableBoardWhileAIThinks(u) EXCEPT !.timers = u.timers + 1]

\* Variant: moveCount is not incremented
UIManagerMakeMoveWithoutCount(u, row, col) ==
  LET moved == [u EXCEPT !.board[row][col] = u.currentPlayer]
      w == checkWinner(moved)
      switched == [w.u EXCEPT !.currentPlayer = IF w.u.currentPlayer = "X" THEN "O" ELSE "X"]
  IN IF w.value # Null THEN displayWinner(w.u, w.value)
     ELSE IF w.u.moveCount = 9 THEN displayDraw(w.u)
     ELSE IF switched.gameMode = PVAI /\ switched.currentPlayer = "O"
          THEN makeAIMove(switched)
          ELSE switched

\* UIManager.makeMove(row, col)
UIManagerMakeMove(u, row, col) ==
  LET moved == [u EXCEPT !.board[row][col] = u.currentPlayer,
                         !.moveCount = u.moveCount + 1]
      w == checkWinner(moved)
      switched == [w.u EXCEPT !.currentPlayer = IF w.u.currentPlayer = "X" THEN "O" ELSE "X"]
  IN IF w.value # Null THEN displayWinner(w.u, w.value)
     ELSE IF w.u.moveCount = 9 THEN displayDraw(w.u)
     ELSE IF switched.gameMode = PVAI /\ switched.currentPlayer = "O"
          THEN makeAIMove(switched)
          ELSE switched

\* handleCellClick for the event of the cell (row, col)
handleCellClick(u, row, col) ==
  IF ~u.isGameActive THEN u
  ELSE IF u.board[row][col] # Empty THEN u
  ELSE UIManagerMakeMove(u, row, col)

\* resetGame without the move count
UIManagerResetGameKeepsCount(u) ==
  enableBoard([u EXCEPT !.board = initializeBoard,
                        !.currentPlayer = "X",
                        !.isGameActive = TRUE,
                        !.winningCells = NoCells])

\* UIManager.resetGame
UIManagerResetGame(u) ==
  enableBoard([u EXCEPT !.board = initializeBoard,
                        !.currentPlayer = "X",
                        !.moveCount = 0,
                        !.isGameActive = TRUE,
                        !.winningCells = NoCells])

\* The callback makeAIMove hands to setTimeout, from the point where getAIMove
\* has returned r = [move, u]
aiMoveCallback(r) ==
  enableBoard(IF r.move # NoMove THEN UIManagerMakeMove(r.u, r.move.row, r.move.col)
              ELSE r.u)

\* The scores of a page that has stored none
NoScores == [x |-> 0, o |-> 0, draws |-> 0]

\* constructor and init, with the scores that loadScoresFromStorage finds
NewUIManager(savedScores) ==
  [board |-> initializeBoard,
   currentPlayer |-> "X",
   gameMode |-> PVP,
   aiDifficulty |-> "medium",
   moveCount |-> 0,
   isGameActive |-> TRUE,
   scores |-> savedScores,
   winningCells |-> NoCells,
   boardDisabled |-> FALSE,
   timers |-> 0]

(***************************************************************************)
(* getMove applied to an arbitrary board (SpecMove)                        *)
(***************************************************************************)
Other(symbol) == IF symbol = "X" THEN "O" ELSE "X"

\* The hard search is run on the boards of its tests and on every board with at
\* most MaxHardEmpty empty cells; easy and medium are run on every board.
MaxHardEmpty == 5

\* BoardPatterns.fromString, on the pattern's characters: '-' is an empty cell
fromString(pattern) ==
  [r \in Idx |-> [c \in Idx |-> IF pattern[r * 3 + c + 1] = "-" THEN Empty
                                 ELSE pattern[r * 3 + c + 1]]]

\* The boards on which the tests call the hard AI before the endgame
HardTestBoards ==
  { EmptyBoard,
    fromString(<<"X", "X", "-", "-", "-", "-", "-", "-", "-">>),
    fromString(<<"X", "-", "-", "-", "O", "-", "-", "-", "-">>),
    fromString(<<"O", "-", "-", "-", "X", "-", "O", "-", "-">>),
    fromString(<<"X", "-", "-", "-", "O", "-", "-", "-", "X">>) }

InputBoards(d) ==
  IF d = "hard"
  THEN {b \in AllBoards : Len(_getAvailableMoves(b)) <= MaxHardEmpty \/ b \in HardTestBoards}
  ELSE AllBoards

InitMove ==
  /\ difficulty \in validDifficulties
  /\ board \in InputBoards(difficulty)
  /\ playerSymbol \in Symbols
  /\ opponentSymbol = Other(playerSymbol)
  /\ currentPlayer = playerSymbol
  /\ move = NoMove
  /\ scores = <<>>
  /\ error = ""
  /\ winner = Null
  /\ pc = "call"
  /\ gameState = NewGameState
  /\ result = Null
  /\ heap = << >>
  /\ stack = << >>
  /\ ui = NewUIManager(NoScores)

GetMove ==
  /\ pc = "call"
  /\ \E r \in {getMove(difficulty, board, playerSymbol, opponentSymbol)} :
       /\ error' = r.error
       /\ scores' = r.scores
       /\ IF r.error = ""
          THEN move' \in r.moves /\ pc' = "return"
          ELSE move' = NoMove /\ pc' = "throw"
  /\ UNCHANGED <<board, difficulty, playerSymbol, opponentSymbol, currentPlayer, winner>>
  /\ UNCHANGED <<gameState, result, heap, stack, ui>>

NextMove == GetMove

SpecMove == InitMove /\ [][NextMove]_vars

(***************************************************************************)
(* The game loop: AITestHelpers.playFullGame with aiFunction = getMove     *)
(***************************************************************************)
winPatterns == << <<0, 1, 2>>, <<3, 4, 5>>, <<6, 7, 8>>,
                  <<0, 3, 6>>, <<1, 4, 7>>, <<2, 5, 8>>,
                  <<0, 4, 8>>, <<2, 4, 6>> >>

\* the flat board's cell pos
Cell(b, pos) == b[pos \div 3][pos % 3]

checkWin(b, player) ==
  \E p \in 1..Len(winPatterns) : \A k \in 1..3 : Cell(b, winPatterns[p][k]) = player

Init ==
  /\ board = EmptyBoard
  /\ difficulty \in validDifficulties
  /\ playerSymbol \in Symbols
  /\ opponentSymbol = Other(playerSymbol)
  /\ currentPlayer = "X"
  /\ move = NoMove
  /\ scores = <<>>
  /\ error = ""
  /\ winner = Null
  /\ pc = "playing"
  /\ gameState = NewGameState
  /\ result = Null
  /\ heap = << >>
  /\ stack = << >>
  /\ ui = NewUIManager(NoScores)

\* board[move] = currentPlayer; then the win test and the change of turn
AfterMove(m) ==
  LET nb == [board EXCEPT ![m.row][m.col] = currentPlayer] IN
    /\ board' = nb
    /\ move' = m
    /\ IF checkWin(nb, currentPlayer)
       THEN /\ winner' = currentPlayer
            /\ pc' = "done"
            /\ UNCHANGED currentPlayer
       ELSE /\ currentPlayer' = Other(currentPlayer)
            /\ UNCHANGED <<winner, pc>>

\* an iteration in which the AI is to move
AIMove ==
  /\ pc = "playing"
  /\ Len(_getAvailableMoves(board)) > 0
  /\ currentPlayer = playerSymbol
  /\ \E r \in {getMove(difficulty, board, playerSymbol, opponentSymbol)} :
       /\ r.error = ""
       /\ scores' = r.scores
       /\ \E m \in r.moves : AfterMove(m)
  /\ UNCHANGED <<difficulty, playerSymbol, opponentSymbol, error>>
  /\ UNCHANGED <<gameState, result, heap, stack, ui>>

\* an iteration in which the other side moves: any available cell
OpponentMove ==
  /\ pc = "playing"
  /\ Len(_getAvailableMoves(board)) > 0
  /\ currentPlayer # playerSymbol
  /\ \E randomIndex \in RandomIndex(Len(_getAvailableMoves(board))) :
       AfterMove(_getAvailableMoves(board)[randomIndex + 1])
  /\ UNCHANGED <<difficulty, playerSymbol, opponentSymbol, scores, error>>
  /\ UNCHANGED <<gameState, result, heap, stack, ui>>

\* an iteration that finds no available move: the game is returned with winner null
ReturnDraw ==
  /\ pc = "playing"
  /\ Len(_getAvailableMoves(board)) = 0
  /\ pc' = "done"
  /\ winner' = Null
  /\ UNCHANGED <<board, difficulty, playerSymbol, opponentSymbol, currentPlayer, move, scores, error>>
  /\ UNCHANGED <<gameState, result, heap, stack, ui>>

Next == AIMove \/ OpponentMove \/ ReturnDraw

Spec == Init /\ [][Next]_vars

(***************************************************************************)
(* A GameState object under any sequence of makeMove and resetGame calls   *)
(* (SpecGame)                                                              *)
(***************************************************************************)
\* The positions makeMove is called with: the nine cells, and positions that are
\* out of range or not integers
ValidArgs == {<<Num(r, TRUE), Num(c, TRUE)>> : r \in Idx, c \in Idx}
InvalidArgs == { <<Num(-1, TRUE), Num(0, TRUE)>>, <<Num(0, TRUE), Num(3, TRUE)>>,
                 <<Num(3, TRUE), Num(3, TRUE)>>, <<Num(1, FALSE), Num(1, TRUE)>>,
                 <<Num(2, TRUE), Num(0, FALSE)>> }
MoveArgs == ValidArgs \cup InvalidArgs

InitGame ==
  /\ board = EmptyBoard
  /\ difficulty = "easy"
  /\ playerSymbol = "O"
  /\ opponentSymbol = "X"
  /\ currentPlayer = "X"
  /\ move = NoMove
  /\ scores = <<>>
  /\ error = ""
  /\ winner = Null
  /\ pc = "game"
  /\ gameState = NewGameState
  /\ result = Null
  /\ heap = << >>
  /\ stack = << >>
  /\ ui = NewUIManager(NoScores)

\* a call gameState.makeMove(row, col), returning or throwing.  A call is made
\* when no exception is in flight.
MakeMove(row, col) ==
  /\ error = ""
  /\ \E r \in {makeMove(gameState, row, col)} :
       /\ gameState' = r.gs
       /\ error' = r.error
  /\ UNCHANGED <<board, difficulty, playerSymbol, opponentSymbol, currentPlayer,
                 move, scores, winner, pc, result, heap, stack, ui>>

\* a call gameState.resetGame()
ResetGame ==
  /\ error = ""
  /\ gameState' = resetGame(gameState)
  /\ UNCHANGED <<board, difficulty, playerSymbol, opponentSymbol, currentPlayer,
                 move, scores, error, winner, pc, result, heap, stack, ui>>

\* the caller catches the error makeMove threw
Catch ==
  /\ error # ""
  /\ error' = ""
  /\ UNCHANGED <<board, difficulty, playerSymbol, opponentSymbol, currentPlayer,
                 move, scores, winner, pc, gameState, result, heap, stack, ui>>

NextGame ==
  \/ \E a \in MoveArgs : MakeMove(a[1], a[2])
  \/ ResetGame
  \/ Catch

SpecGame == InitGame /\ [][NextGame]_vars

(***************************************************************************)
(* getMove on the heap (SpecFrame)                                         *)
(*                                                                         *)
(* The same code with the arrays as objects.  heap is the sequence of the  *)
(* row arrays, a row's address its place in it; a board is the tuple of    *)
(* the addresses of its three rows.  The outer array of a board is never   *)
(* written, a row is written by newBoard[move.row][move.col] = symbol.     *)
(* Each operator yields the heap it leaves with the value it returns.      *)
(***************************************************************************)
\* The board the caller passes: its rows are the first three of the heap
CallerBoard == (0 :> 1) @@ (1 :> 2) @@ (2 :> 3)
CallerHeap(b) == <<CloneRow(b[0]), CloneRow(b[1]), CloneRow(b[2])>>

\* The cells read through a board reference
Deref(h, ref) == (0 :> h[ref[0]]) @@ (1 :> h[ref[1]]) @@ (2 :> h[ref[2]])

\* Variant: a shallow copy, [...board]: a new outer array of the same rows
_cloneBoardShallow(h, ref) == [heap |-> h, ref |-> ref]

\* board.map(row => [...row]): three new rows, and the board of them
_cloneBoardOnHeap(h, ref) ==
  [heap |-> h \o <<CloneRow(h[ref[0]]), CloneRow(h[ref[1]]), CloneRow(h[ref[2]])>>,
   ref |-> (0 :> Len(h) + 1) @@ (1 :> Len(h) + 2) @@ (2 :> Len(h) + 3)]

\* newBoard = this._cloneBoard(board); newBoard[move.row][move.col] = symbol
Hypothetical(h, ref, m, symbol) ==
  LET copy == _cloneBoardOnHeap(h, ref)
  IN [heap |-> [copy.heap EXCEPT ![copy.ref[m.row]][m.col] = symbol], ref |-> copy.ref]

\* At the end of an iteration newBoard is unreachable: the rows allocated since h
\* are dropped
Release(h2, h) == SubSeq(h2, 1, Len(h))

RECURSIVE FindLoopOnHeap(_, _, _, _, _)
FindLoopOnHeap(h, ref, symbol, moves, i) ==
  IF i > Len(moves) THEN [move |-> NoMove, heap |-> h]
  ELSE LET testBoard == Hypothetical(h, ref, moves[i], symbol)
       IN IF _checkWinner(Deref(testBoard.heap, testBoard.ref)) = symbol
          THEN [move |-> moves[i], heap |-> Release(testBoard.heap, h)]
          ELSE FindLoopOnHeap(Release(testBoard.heap, h), ref, symbol, moves, i + 1)

_findWinningMoveOnHeap(h, ref, symbol, availableMoves) ==
  FindLoopOnHeap(h, ref, symbol, availableMoves, 1)

_getMediumMoveOnHeap(h, ref, ps, os, availableMoves) ==
  LET winning == _findWinningMoveOnHeap(h, ref, ps, availableMoves)
      blocking == _findWinningMoveOnHeap(winning.heap, ref, os, availableMoves)
      centerMoves == SelectSeq(availableMoves, IsCenter)
      corners == SelectSeq(availableMoves, IsCorner)
  IN IF winning.move # NoMove THEN [moves |-> {winning.move}, heap |-> winning.heap]
     ELSE IF blocking.move # NoMove THEN [moves |-> {blocking.move}, heap |-> blocking.heap]
     ELSE IF Len(centerMoves) > 0 THEN [moves |-> {centerMoves[1]}, heap |-> blocking.heap]
     ELSE IF Len(corners) > 0
     THEN [moves |-> {corners[i + 1] : i \in RandomIndex(Len(corners))}, heap |-> blocking.heap]
     ELSE [moves |-> _getRandomMove(availableMoves), heap |-> blocking.heap]

RECURSIVE _minimaxOnHeap(_, _, _, _, _, _, _, _)
RECURSIVE MaxLoopOnHeap(_, _, _, _, _, _, _, _, _, _)
RECURSIVE MinLoopOnHeap(_, _, _, _, _, _, _, _, _, _)

MaxLoopOnHeap(h, ref, depth, ps, os, alpha, beta, moves, i, maxScore) ==
  IF i > Len(moves) THEN [value |-> maxScore, heap |-> h]
  ELSE LET newBoard == Hypothetical(h, ref, moves[i], ps)
           score == _minimaxOnHeap(newBoard.heap, newBoard.ref, depth + 1, FALSE, ps, os,
                                   alpha, beta)
           maxScore2 == Max(maxScore, score.value)
           alpha2 == Max(alpha, score.value)
       IN IF Cutoff(alpha2, beta) THEN [value |-> maxScore2, heap |-> Release(score.heap, h)]
          ELSE MaxLoopOnHeap(Release(score.heap, h), ref, depth, ps, os, alpha2, beta,
                             moves, i + 1, maxScore2)

MinLoopOnHeap(h, ref, depth, ps, os, alpha, beta, moves, i, minScore) ==
  IF i > Len(moves) THEN [value |-> minScore, heap |-> h]
  ELSE LET newBoard == Hypothetical(h, ref, moves[i], os)
           score == _minimaxOnHeap(newBoard.heap, newBoard.ref, depth + 1, TRUE, ps, os,
                                   alpha, beta)
           minScore2 == Min(minScore, score.value)
           beta2 == Min(beta, score.value)
       IN IF Cutoff(alpha, beta2) THEN [value |-> minScore2, heap |-> Release(score.heap, h)]
          ELSE MinLoopOnHeap(Release(score.heap, h), ref, depth, ps, os, alpha, beta2,
                             moves, i + 1, minScore2)

_minimaxOnHeap(h, ref, depth, isMaximizing, ps, os, alpha, beta) ==
  LET b == Deref(h, ref)
      w == _checkWinner(b)
  IN IF w = ps THEN [value |-> WinScore(depth), heap |-> h]
     ELSE IF w = os THEN [value |-> LossScore(depth), heap |-> h]
     ELSE IF _isBoardFull(b) THEN [value |-> 0, heap |-> h]
     ELSE IF isMaximizing
          THEN MaxLoopOnHeap(h, ref, depth, ps, os, alpha, beta, _getAvailableMoves(b), 1,
                             NegInfinity)
          ELSE MinLoopOnHeap(h, ref, depth, ps, os, alpha, beta, _getAvailableMoves(b), 1,
                             PosInfinity)

RECURSIVE BestLoopOnHeap(_, _, _, _, _, _, _)
\* best holds bestScore, bestMove, the scores so far, and the heap
BestLoopOnHeap(h, ref, ps, os, moves, i, best) ==
  IF i > Len(moves) THEN best
  ELSE LET newBoard == Hypothetical(best.heap, ref, moves[i], ps)
           score == _minimaxOnHeap(newBoard.heap, newBoard.ref, 0, FALSE, ps, os,
                                   NegInfinity, PosInfinity)
       IN BestLoopOnHeap(h, ref, ps, os, moves, i + 1,
                         IF Improves(score.value, best.bestScore)
                         THEN [bestScore |-> score.value, bestMove |-> moves[i],
                               scores |-> Append(best.scores, score.value),
                               heap |-> Release(score.heap, best.heap)]
                         ELSE [best EXCEPT !.scores = Append(best.scores, score.value),
                                           !.heap = Release(score.heap, best.heap)])

_getMiniMaxMoveOnHeap(h, ref, ps, os) ==
  LET availableMoves == _getAvailableMoves(Deref(h, ref))
      best == BestLoopOnHeap(h, ref, ps, os, availableMoves, 1,
                             [bestScore |-> NegInfinity, bestMove |-> NoMove,
                              scores |-> <<>>, heap |-> h])
  IN [move |-> IF best.bestMove # NoMove THEN best.bestMove ELSE availableMoves[1],
      scores |-> best.scores, heap |-> best.heap]

\* getMove: [error, moves, scores, heap]
getMoveOnHeap(d, h, ref, ps, os) ==
  LET b == Deref(h, ref) IN
  IF _validateBoard(b) # "" THEN [error |-> _validateBoard(b), moves |-> {}, scores |-> <<>>, heap |-> h]
  ELSE IF _validateSymbols(ps, os) # ""
  THEN [error |-> _validateSymbols(ps, os), moves |-> {}, scores |-> <<>>, heap |-> h]
  ELSE LET availableMoves == _getAvailableMoves(b) IN
       IF Len(availableMoves) = 0
       THEN [error |-> "No available moves on the board", moves |-> {}, scores |-> <<>>, heap |-> h]
       ELSE CASE d = "easy" ->
                   [error |-> "", moves |-> _getRandomMove(availableMoves), scores |-> <<>>, heap |-> h]
              [] d = "medium" ->
                   LET medium == _getMediumMoveOnHeap(h, ref, ps, os, availableMoves)
                   IN [error |-> "", moves |-> medium.moves, scores |-> <<>>, heap |-> medium.heap]
              [] d = "hard" ->
                   LET hard == _getMiniMaxMoveOnHeap(h, ref, ps, os)
                   IN [error |-> "", moves |-> {hard.move}, scores |-> hard.scores, heap |-> hard.heap]
              [] OTHER ->
                   [error |-> "", moves |-> _getRandomMove(availableMoves), scores |-> <<>>, heap |-> h]

\* The caller builds a board (its rows are on the heap) and calls getMove with it
InitFrame ==
  /\ difficulty \in validDifficulties
  /\ board \in InputBoards(difficulty)
  /\ playerSymbol \in Symbols
  /\ opponentSymbol = Other(playerSymbol)
  /\ currentPlayer = playerSymbol
  /\ move = NoMove
  /\ scores = <<>>
  /\ error = ""
  /\ winner = Null
  /\ pc = "call"
  /\ gameState = NewGameState
  /\ result = Null
  /\ heap = CallerHeap(board)
  /\ stack = << >>
  /\ ui = NewUIManager(NoScores)

\* board keeps the cells as they were passed; heap holds the caller's rows as the
\* call leaves them
GetMoveOnHeap ==
  /\ pc = "call"
  /\ \E r \in {getMoveOnHeap(difficulty, heap, CallerBoard, playerSymbol, opponentSymbol)} :
       /\ error' = r.error
       /\ scores' = r.scores
       /\ heap' = r.heap
       /\ IF r.error = ""
          THEN move' \in r.moves /\ pc' = "return"
          ELSE move' = NoMove /\ pc' = "throw"
  /\ UNCHANGED <<board, difficulty, playerSymbol, opponentSymbol, currentPlayer, winner>>
  /\ UNCHANGED <<gameState, result, ui, stack>>

NextFrame == GetMoveOnHeap

SpecFrame == InitFrame /\ [][NextFrame]_vars

(***************************************************************************)
(* getMove called with malformed arguments (SpecArgs)                      *)
(***************************************************************************)
\* The symbols passed: the two marks, two other strings, and a missing symbol
ArgSymbols == {"X", "O", "A", "B", Empty}

\* Arrays that are not 3 rows of 3 cells: no row, two rows, four rows, a row of
\* two cells, a row of four cells
MalformedBoards ==
  { << >>,
    [r \in 0..1 |-> [c \in Idx |-> Empty]],
    [r \in 0..3 |-> [c \in Idx |-> Empty]],
    [r \in Idx |-> IF r = 1 THEN [c \in 0..1 |-> Empty] ELSE [c \in Idx |-> Empty]],
    [r \in Idx |-> IF r = 2 THEN [c \in 0..3 |-> Empty] ELSE [c \in Idx |-> Empty]] }

WellFormedBoards ==
  { fromString(<<"X", "X", "-", "O", "O", "-", "-", "-", "-">>),
    fromString(<<"X", "O", "X", "-", "O", "-", "-", "X", "-">>),
    fromString(<<"X", "O", "X", "X", "O", "O", "O", "X", "X">>) }

InitArgs ==
  /\ difficulty \in validDifficulties
  /\ board \in MalformedBoards \cup WellFormedBoards
  /\ playerSymbol \in ArgSymbols
  /\ opponentSymbol \in ArgSymbols
  /\ currentPlayer = "X"
  /\ move = NoMove
  /\ scores = <<>>
  /\ error = ""
  /\ winner = Null
  /\ pc = "call"
  /\ gameState = NewGameState
  /\ result = Null
  /\ heap = << >>
  /\ stack = << >>
  /\ ui = NewUIManager(NoScores)

SpecArgs == InitArgs /\ [][NextMove]_vars

(***************************************************************************)
(* The two winner checks applied to every cell assignment (SpecOracle)     *)
(***************************************************************************)
\* The flat board with the cells of b: index = row * 3 + col
Flatten(b) == [i \in 0..8 |-> b[i \div 3][i % 3]]

InitOracle ==
  /\ board \in AllBoards
  /\ difficulty = "easy"
  /\ playerSymbol = "O"
  /\ opponentSymbol = "X"
  /\ currentPlayer = "X"
  /\ move = NoMove
  /\ scores = <<>>
  /\ error = ""
  /\ winner = Null
  /\ pc = "new"
  /\ gameState = NewGameState
  /\ result = Null
  /\ heap = << >>
  /\ stack = << >>
  /\ ui = NewUIManager(NoScores)

\* gameState.fromJSON({board, currentPlayer: 'X'}): the GameState is given the cells of board
FromJSON ==
  /\ pc = "new"
  /\ \E r \in {fromJSON(gameState, [board |-> Flatten(board), currentPlayer |-> PLAYER_X,
                                     gameStatus |-> "", winner |-> Null,
                                     winningCombination |-> NoCombination,
                                     moveHistory |-> << >>])} :
       /\ gameState' = r.gs
       /\ error' = r.error
  /\ pc' = "fromJSON"
  /\ UNCHANGED <<board, difficulty, playerSymbol, opponentSymbol, currentPlayer,
                 move, scores, winner, result, heap, stack, ui>>

\* gameState.checkWin()
CheckWin ==
  /\ pc = "fromJSON"
  /\ \E r \in {GameStateCheckWin(gameState)} :
       /\ gameState' = r.gs
       /\ result' = r.value
  /\ pc' = "checkWin"
  /\ UNCHANGED <<board, difficulty, playerSymbol, opponentSymbol, currentPlayer,
                 move, scores, error, winner, heap, stack, ui>>

\* aiPlayer._checkWinner(board)
CheckWinner ==
  /\ pc = "checkWin"
  /\ winner' = _checkWinner(board)
  /\ pc' = "_checkWinner"
  /\ UNCHANGED <<board, difficulty, playerSymbol, opponentSymbol, currentPlayer,
                 move, scores, error, gameState, result, heap, stack, ui>>

NextOracle == FromJSON \/ CheckWin \/ CheckWinner

SpecOracle == InitOracle /\ [][NextOracle]_vars

(***************************************************************************)
(* The page: a UIManager under clicks, key presses and timer callbacks in  *)
(* any order (SpecUI)                                                      *)
(*                                                                         *)
(* Every handler runs to its end before the next event is taken.  A cell's *)
(* handler runs on a click and on Enter or Space when the cell has the     *)
(* focus, which the arrow keys move to any cell; handleCellClick tests     *)
(* isGameActive and the cell, not the class of the board.  The callback of *)
(* makeAIMove runs when its 300 ms are over, whatever happened meanwhile:  *)
(* no handler calls clearTimeout.                                          *)
(***************************************************************************)
\* The player stops clicking cells once the scores count MaxScore games, and
\* does not click a cell when setTimeout would then hold more than MaxTimers
\* callbacks.  A callback that is held always runs.
MaxScore == 1
MaxTimers == 1

\* winningCells after a search in which a checkWinner call found a line: the
\* cells of one of the 8 lines; which one is not followed here
StaleCells == << <<-1, -1>> >>

\* The results [move, u] of getAIMove without running the search.  getAIMove
\* returns an empty cell (null when there is none), which is a result of
\* getRandomMove; getBestMove leaves the board as it was (SearchRestoresBoard)
\* and winningCells either as it was or with the cells of a line.  For easy
\* and medium these are the results of getAIMove; for hard they include them
\* (AIMoveWithinResults).
AIMoveResults(u) ==
  {[move |-> m, u |-> v] :
     m \in getRandomMove(u),
     v \in IF u.aiDifficulty = "easy" THEN {u}
           ELSE {u, [u EXCEPT !.winningCells = StaleCells]}}

ScoreSum(u) == u.scores.x + u.scores.o + u.scores.draws

InitUI ==
  /\ board = EmptyBoard
  /\ difficulty = "easy"
  /\ playerSymbol = "O"
  /\ opponentSymbol = "X"
  /\ currentPlayer = "X"
  /\ move = NoMove
  /\ scores = <<>>
  /\ error = ""
  /\ winner = Null
  /\ pc = "page"
  /\ gameState = NewGameState
  /\ result = Null
  /\ heap = << >>
  /\ stack = << >>
  /\ ui = NewUIManager(NoScores)

\* a click, or Enter or Space, on the cell (row, col)
HandleCellClick(row, col) ==
  /\ ScoreSum(ui) < MaxScore
  /\ ui' = handleCellClick(ui, row, col)
  /\ ui'.timers <= MaxTimers
  /\ UNCHANGED <<board, difficulty, playerSymbol, opponentSymbol, currentPlayer,
                 move, scores, error, winner, pc, gameState, result, heap, stack>>

\* a click on a button of the mode selector
ModeButtonClick(mode) ==
  /\ ui' = UIManagerResetGame([ui EXCEPT !.gameMode = mode])
  /\ UNCHANGED <<board, difficulty, playerSymbol, opponentSymbol, currentPlayer,
                 move, scores, error, winner, pc, gameState, result, heap, stack>>

\* a click on a button of the difficulty selector, which the mode handler shows
\* in Player-vs-AI mode only
DifficultyButtonClick(d) ==
  /\ ui.gameMode = PVAI
  /\ ui' = UIManagerResetGame([ui EXCEPT !.aiDifficulty = d])
  /\ UNCHANGED <<board, difficulty, playerSymbol, opponentSymbol, currentPlayer,
                 move, scores, error, winner, pc, gameState, result, heap, stack>>

\* a click on the New Game button
NewGameButtonClick ==
  /\ ui' = UIManagerResetGame(ui)
  /\ UNCHANGED <<board, difficulty, playerSymbol, opponentSymbol, currentPlayer,
                 move, scores, error, winner, pc, gameState, result, heap, stack>>

\* the time of a pending makeAIMove callback is over
TimerCallback ==
  /\ ui.timers > 0
  /\ \E r \in AIMoveResults([ui EXCEPT !.timers = ui.timers - 1]) : ui' = aiMoveCallback(r)
  /\ UNCHANGED <<board, difficulty, playerSymbol, opponentSymbol, currentPlayer,
                 move, scores, error, winner, pc, gameState, result, heap, stack>>

NextUI ==
  \/ \E row \in Idx : \E col \in Idx : HandleCellClick(row, col)
  \/ \E mode \in {PVP, PVAI} : ModeButtonClick(mode)
  \/ \E d \in validDifficulties : DifficultyButtonClick(d)
  \/ NewGameButtonClick
  \/ TimerCallback

SpecUI == InitUI /\ [][NextUI]_vars

(***************************************************************************)
(* The call of getAIMove in the callback of makeAIMove (SpecSearch)        *)
(*                                                                         *)
(* The callback runs on a board the page has reached: X and O were placed  *)
(* in turn, X first.  ui is the UIManager at the call, result what         *)
(* getAIMove returns, and board keeps the cells of the call.  The same     *)
(* board is then given to an AIPlayer of the same difficulty, playing O.   *)
(***************************************************************************)

\* The search is run on every such board with at most MaxSearchEmpty empty cells
MaxSearchEmpty == 6

CountOf(b, symbol) == Len(SelectSeq(AllCells, LAMBDA m : b[m.row][m.col] = symbol))

\* The boards of the page: makeMove places X and O in turn, X first, as long as
\* the game is active; when a line is complete the callbacks still held place
\* further marks
PageBoard(b) ==
  \/ CountOf(b, "X") - CountOf(b, "O") \in {0, 1}
  \/ checkWinner([NewUIManager(NoScores) EXCEPT !.board = b]).value # Null

SearchBoards ==
  {b \in AllBoards : PageBoard(b) /\ CountOf(b, Empty) <= MaxSearchEmpty}

\* The UIManager when the callback runs on the board b at difficulty d: the
\* fields are what the makeMove calls that placed b's marks have left.
\* makeMove does not switch currentPlayer when it ends the game.
UIManagerAtCallback(b, d) ==
  LET played == [NewUIManager(NoScores) EXCEPT
                   !.board = b,
                   !.gameMode = PVAI,
                   !.aiDifficulty = d,
                   !.moveCount = 9 - CountOf(b, Empty),
                   !.boardDisabled = TRUE]
      w == checkWinner(played)
      over == w.value # Null \/ isBoardFull(played)
  IN [w.u EXCEPT !.isGameActive = ~over,
                 !.currentPlayer = IF w.value # Null THEN w.value
                                   ELSE IF over \/ CountOf(b, "X") = CountOf(b, "O")
                                   THEN "X" ELSE "O"]

InitSearch ==
  /\ difficulty \in validDifficulties
  /\ board \in SearchBoards
  /\ playerSymbol = "O"
  /\ opponentSymbol = "X"
  /\ currentPlayer = "O"
  /\ move = NoMove
  /\ scores = <<>>
  /\ error = ""
  /\ winner = Null
  /\ pc = "call"
  /\ gameState = NewGameState
  /\ result = Null
  /\ heap = << >>
  /\ stack = << >>
  /\ ui = UIManagerAtCallback(board, difficulty)

\* const move = this.getAIMove()
GetAIMove ==
  /\ pc = "call"
  /\ \E r \in getAIMove(ui) :
       /\ result' = r
       /\ ui' = r.u
  /\ pc' = "moved"
  /\ UNCHANGED <<board, difficulty, playerSymbol, opponentSymbol, currentPlayer,
                 move, scores, error, winner, gameState, heap, stack>>

\* new AIPlayer(difficulty).getMove(board, 'O', 'X') on the board of the call
AIPlayerGetMove ==
  /\ pc = "moved"
  /\ \E r \in {getMove(difficulty, board, playerSymbol, opponentSymbol)} :
       /\ error' = r.error
       /\ scores' = r.scores
       /\ IF r.error = ""
          THEN move' \in r.moves /\ pc' = "return"
          ELSE move' = NoMove /\ pc' = "throw"
  /\ UNCHANGED <<board, difficulty, playerSymbol, opponentSymbol, currentPlayer,
                 winner, gameState, result, heap, stack, ui>>

NextSearch ==
  \/ GetAIMove
  \/ AIPlayerGetMove

SpecSearch == InitSearch /\ [][NextSearch]_vars


(***************************************************************************)
(* A GameState saved by toJSON and restored by fromJSON (SpecJSON)         *)
(*                                                                         *)
(* The game is played as in SpecGame.  At any point toJSON is called,      *)
(* result is the object it returns, and fromJSON is called with it on the  *)
(* same GameState or on another one; gameState is then the GameState that  *)
(* was restored.                                                           *)
(***************************************************************************)

\* The other GameState objects fromJSON is called on: a new one, and one with a
\* game under way
OtherGameStates ==
  {NewGameState, makeMove(NewGameState, Num(1, TRUE), Num(1, TRUE)).gs}

\* a makeMove or resetGame call, or a catch, while the game is played
PlayGame ==
  /\ pc = "game"
  /\ NextGame

\* const state = gameState.toJSON()
ToJSON ==
  /\ pc = "game"
  /\ error = ""
  /\ result' = toJSON(gameState)
  /\ pc' = "toJSON"
  /\ UNCHANGED <<board, difficulty, playerSymbol, opponentSymbol, currentPlayer,
                 move, scores, error, winner, gameState, heap, stack, ui>>

\* target.fromJSON(state)
RestoreFromJSON ==
  /\ pc = "toJSON"
  /\ \E target \in OtherGameStates \cup {gameState} :
       \E r \in {fromJSON(target, result)} :
         /\ gameState' = r.gs
         /\ error' = r.error
  /\ pc' = "fromJSON"
  /\ UNCHANGED <<board, difficulty, playerSymbol, opponentSymbol, currentPlayer,
                 move, scores, winner, result, heap, stack, ui>>

NextJSON ==
  \/ PlayGame
  \/ ToJSON
  \/ RestoreFromJSON

SpecJSON == InitGame /\ [][NextJSON]_vars


(***************************************************************************)
(* The move generators applied to every cell assignment (SpecGenerator)    *)
(*                                                                         *)
(* The board is loaded into the GameState as in SpecOracle; result is the  *)
(* value of the last call.                                                 *)
(***************************************************************************)

\* gameState.getAvailableMoves()
GetAvailableMoves ==
  /\ pc = "fromJSON"
  /\ error = ""
  /\ result' = getAvailableMoves(gameState)
  /\ pc' = "getAvailableMoves"
  /\ UNCHANGED <<board, difficulty, playerSymbol, opponentSymbol, currentPlayer,
                 move, scores, error, winner, gameState, heap, stack, ui>>

\* aiPlayer._getAvailableMoves(board)
AIPlayerGetAvailableMoves ==
  /\ pc = "getAvailableMoves"
  /\ result' = _getAvailableMoves(board)
  /\ pc' = "_getAvailableMoves"
  /\ UNCHANGED <<board, difficulty, playerSymbol, opponentSymbol, currentPlayer,
                 move, scores, error, winner, gameState, heap, stack, ui>>

\* aiPlayer._isBoardFull(board)
AIPlayerIsBoardFull ==
  /\ pc = "_getAvailableMoves"
  /\ result' = _isBoardFull(board)
  /\ pc' = "_isBoardFull"
  /\ UNCHANGED <<board, difficulty, playerSymbol, opponentSymbol, currentPlayer,
                 move, scores, error, winner, gameState, heap, stack, ui>>

NextGenerator ==
  \/ FromJSON
  \/ GetAvailableMoves
  \/ AIPlayerGetAvailableMoves
  \/ AIPlayerIsBoardFull

SpecGenerator == InitOracle /\ [][NextGenerator]_vars


(***************************************************************************)
(* The coordinate conversions of utils, called in turn (SpecCoords)        *)
(*                                                                         *)
(* board is the argument of the first call: <<"index", i>> or              *)
(* <<"coordinates", row, col>>.  result is the index last passed or        *)
(* returned, move the coordinates last passed or returned; each call       *)
(* converts what the one before returned.                                  *)
(***************************************************************************)

\* The numbers passed: from MaxBeyond below the range to MaxBeyond above it,
\* integers and non-integers
MaxBeyond == 1

NumbersUpTo(n) ==
  {Num(w, isInteger) : w \in (0 - MaxBeyond)..(n + MaxBeyond), isInteger \in BOOLEAN}

IndexArgs == NumbersUpTo(BOARD_SIZE * BOARD_SIZE - 1)
CoordinateArgs == NumbersUpTo(BOARD_SIZE - 1)

NoNumber == Num(-1, TRUE)
NoCoordinates == [row |-> NoNumber, col |-> NoNumber]

InitCoords ==
  /\ \/ \E i \in IndexArgs :
          /\ board = <<"index", i>>
          /\ result = i
          /\ move = NoCoordinates
          /\ pc = "index"
     \/ \E row \in CoordinateArgs : \E col \in CoordinateArgs :
          /\ board = <<"coordinates", row, col>>
          /\ result = NoNumber
          /\ move = [row |-> row, col |-> col]
          /\ pc = "coordinates"
  /\ difficulty = "easy"
  /\ playerSymbol = "O"
  /\ opponentSymbol = "X"
  /\ currentPlayer = "X"
  /\ scores = <<>>
  /\ error = ""
  /\ winner = Null
  /\ gameState = NewGameState
  /\ heap = << >>
  /\ stack = << >>
  /\ ui = NewUIManager(NoScores)

\* indexToCoordinates(result)
IndexToCoordinates ==
  /\ pc = "index"
  /\ \E r \in {indexToCoordinates(result)} :
       /\ error' = r.error
       /\ IF r.error = ""
          THEN move' = [row |-> r.row, col |-> r.col] /\ pc' = "coordinates"
          ELSE move' = move /\ pc' = "throw"
  /\ UNCHANGED <<board, difficulty, playerSymbol, opponentSymbol, currentPlayer,
                 scores, winner, gameState, result, heap, stack, ui>>

\* coordinatesToIndex(move.row, move.col)
CoordinatesToIndex ==
  /\ pc = "coordinates"
  /\ \E r \in {coordinatesToIndexCall(move.row, move.col)} :
       /\ error' = r.error
       /\ IF r.error = ""
          THEN result' = r.value /\ pc' = "index"
          ELSE result' = result /\ pc' = "throw"
  /\ UNCHANGED <<board, difficulty, playerSymbol, opponentSymbol, currentPlayer,
                 move, scores, winner, gameState, heap, stack, ui>>

NextCoords ==
  \/ IndexToCoordinates
  \/ CoordinatesToIndex

SpecCoords == InitCoords /\ [][NextCoords]_vars


(***************************************************************************)
(* SpecStack: the hard search of one getMove call, one call or return of   *)
(* _minimax at a time.  stack holds the activation records of the calls in *)
(* progress; result holds the locals bestScore and bestMove of            *)
(* _getMiniMaxMove and scores the candidate scores computed so far.        *)
(***************************************************************************)
MaxStackEmpty == 3

\* The positions of a game in which X began, and the empty board
StackBoards ==
  {b \in AllBoards : /\ Len(_getAvailableMoves(b)) <= MaxStackEmpty
                     /\ CountOf(b, "X") - CountOf(b, "O") \in {0, 1}}
    \cup {EmptyBoard}

\* The side to move on b
ToMove(b) == IF CountOf(b, "X") = CountOf(b, "O") THEN "X" ELSE "O"

\* The activation record of _minimax(b, depth, isMaximizing, ps, os, alpha, beta) on
\* entry: i is the position of the loop in availableMoves, score the local maxScore
\* or minScore, cut whether the loop has executed its break.
Frame(b, depth, isMaximizing, alpha, beta) ==
  [board |-> b, depth |-> depth, isMaximizing |-> isMaximizing,
   alpha |-> alpha, beta |-> beta, i |-> 1,
   score |-> IF isMaximizing THEN NegInfinity ELSE PosInfinity, cut |-> FALSE]

\* The call has reached one of its return statements
FrameReturns(f, ps, os) ==
  \/ _checkWinner(f.board) \in {ps, os}
  \/ _isBoardFull(f.board)
  \/ f.cut
  \/ f.i > Len(_getAvailableMoves(f.board))

\* The value it returns
FrameValue(f, ps, os) ==
  LET w == _checkWinner(f.board) IN
  IF w = ps THEN WinScore(f.depth)
  ELSE IF w = os THEN LossScore(f.depth)
  ELSE IF _isBoardFull(f.board) THEN 0
  ELSE f.score

\* Variant: the recursive call is made two levels deeper
CalleeTwoDeeper(f, ps, os) ==
  Frame(PlaceOnCopy(f.board, _getAvailableMoves(f.board)[f.i],
                    IF f.isMaximizing THEN ps ELSE os),
        f.depth + 2, ~f.isMaximizing, f.alpha, f.beta)

\* The recursive call of the loop body: _minimax(newBoard, depth + 1, ...)
Callee(f, ps, os) ==
  Frame(PlaceOnCopy(f.board, _getAvailableMoves(f.board)[f.i],
                    IF f.isMaximizing THEN ps ELSE os),
        f.depth + 1, ~f.isMaximizing, f.alpha, f.beta)

\* The rest of the loop body once the recursive call has returned score
Resume(f, score) ==
  IF f.isMaximizing
  THEN LET alpha2 == Max(f.alpha, score)
       IN [f EXCEPT !.score = Max(@, score), !.alpha = alpha2,
                    !.cut = Cutoff(alpha2, f.beta), !.i = @ + 1]
  ELSE LET beta2 == Min(f.beta, score)
       IN [f EXCEPT !.score = Min(@, score), !.beta = beta2,
                    !.cut = Cutoff(f.alpha, beta2), !.i = @ + 1]

InitStack ==
  /\ difficulty = "hard"
  /\ board \in StackBoards
  /\ playerSymbol = ToMove(board)
  /\ opponentSymbol = Other(playerSymbol)
  /\ currentPlayer = playerSymbol
  /\ move = NoMove
  /\ scores = <<>>
  /\ error = ""
  /\ winner = Null
  /\ pc = "call"
  /\ gameState = NewGameState
  /\ result = Null
  /\ heap = << >>
  /\ stack = << >>
  /\ ui = NewUIManager(NoScores)

\* getMove up to its switch: the validations, and the call of _getMiniMaxMove
EnterGetMove ==
  /\ pc = "call"
  /\ IF _validateBoard(board) # ""
     THEN error' = _validateBoard(board) /\ pc' = "throw" /\ UNCHANGED result
     ELSE IF _validateSymbols(playerSymbol, opponentSymbol) # ""
     THEN error' = _validateSymbols(playerSymbol, opponentSymbol)
          /\ pc' = "throw" /\ UNCHANGED result
     ELSE IF Len(_getAvailableMoves(board)) = 0
     THEN error' = "No available moves on the board" /\ pc' = "throw" /\ UNCHANGED result
     ELSE /\ result' = [bestScore |-> NegInfinity, bestMove |-> NoMove]
          /\ pc' = "search"
          /\ UNCHANGED error
  /\ UNCHANGED <<board, difficulty, playerSymbol, opponentSymbol, currentPlayer, move,
                 scores, winner, gameState, heap, stack, ui>>

\* _getMiniMaxMove calls _minimax for its next candidate
CallMinimax ==
  /\ pc = "search"
  /\ stack = << >>
  /\ Len(scores) < Len(_getAvailableMoves(board))
  /\ stack' = << Frame(PlaceOnCopy(board, _getAvailableMoves(board)[Len(scores) + 1],
                                   playerSymbol),
                       0, FALSE, NegInfinity, PosInfinity) >>
  /\ UNCHANGED <<board, difficulty, playerSymbol, opponentSymbol, currentPlayer, move,
                 scores, error, winner, pc, gameState, result, heap, ui>>

\* The innermost _minimax call calls itself
Recurse ==
  /\ pc = "search"
  /\ stack # << >>
  /\ ~FrameReturns(stack[Len(stack)], playerSymbol, opponentSymbol)
  /\ stack' = Append(stack, Callee(stack[Len(stack)], playerSymbol, opponentSymbol))
  /\ UNCHANGED <<board, difficulty, playerSymbol, opponentSymbol, currentPlayer, move,
                 scores, error, winner, pc, gameState, result, heap, ui>>

\* The innermost _minimax call returns to the _minimax call that made it
ReturnMinimax ==
  /\ pc = "search"
  /\ Len(stack) >= 2
  /\ FrameReturns(stack[Len(stack)], playerSymbol, opponentSymbol)
  /\ stack' = Append(SubSeq(stack, 1, Len(stack) - 2),
                     Resume(stack[Len(stack) - 1],
                            FrameValue(stack[Len(stack)], playerSymbol, opponentSymbol)))
  /\ UNCHANGED <<board, difficulty, playerSymbol, opponentSymbol, currentPlayer, move,
                 scores, error, winner, pc, gameState, result, heap, ui>>

\* The outermost _minimax call returns the candidate's score to _getMiniMaxMove
ReturnCandidate ==
  /\ pc = "search"
  /\ Len(stack) = 1
  /\ FrameReturns(stack[1], playerSymbol, opponentSymbol)
  /\ \E score \in {FrameValue(stack[1], playerSymbol, opponentSymbol)} :
       /\ scores' = Append(scores, score)
       /\ result' = IF Improves(score, result.bestScore)
                    THEN [bestScore |-> score,
                          bestMove |-> _getAvailableMoves(board)[Len(scores) + 1]]
                    ELSE result
  /\ stack' = << >>
  /\ UNCHANGED <<board, difficulty, playerSymbol, opponentSymbol, currentPlayer, move,
                 error, winner, pc, gameState, heap, ui>>

\* "return bestMove || availableMoves[0]", which getMove returns in turn
ReturnMove ==
  /\ pc = "search"
  /\ stack = << >>
  /\ Len(scores) = Len(_getAvailableMoves(board))
  /\ move' = IF result.bestMove # NoMove THEN result.bestMove
             ELSE _getAvailableMoves(board)[1]
  /\ pc' = "return"
  /\ UNCHANGED <<board, difficulty, playerSymbol, opponentSymbol, currentPlayer,
                 scores, error, winner, gameState, result, heap, stack, ui>>

NextStack ==
  EnterGetMove \/ CallMinimax \/ Recurse \/ ReturnMinimax \/ ReturnCandidate \/ ReturnMove

\* A call in progress goes on: the engine runs getMove to completion
SpecStack == InitStack /\ [][NextStack]_vars /\ WF_vars(NextStack)

(***************************************************************************)
(* Vocabulary of the properties                                            *)
(***************************************************************************)
Positions == 0..8
Lines == {{0, 1, 2}, {3, 4, 5}, {6, 7, 8},
          {0, 3, 6}, {1, 4, 7}, {2, 5, 8},
          {0, 4, 8}, {2, 4, 6}}

At(b, pos) == b[pos \div 3][pos % 3]
Index(m) == m.row * 3 + m.col
MoveAt(pos) == [row |-> pos \div 3, col |-> pos % 3]
Put(b, pos, symbol) == [b EXCEPT ![pos \div 3][pos % 3] = symbol]

EmptyPositions(b) == {pos \in Positions : At(b, pos) = Empty}
MarkCount(b, symbol) == Cardinality({pos \in Positions : At(b, pos) = symbol})
\* symbol holds the three cells of one of the 8 lines
HasLine(b, symbol) ==
  \/ b[0][0] = symbol /\ b[0][1] = symbol /\ b[0][2] = symbol
  \/ b[1][0] = symbol /\ b[1][1] = symbol /\ b[1][2] = symbol
  \/ b[2][0] = symbol /\ b[2][1] = symbol /\ b[2][2] = symbol
  \/ b[0][0] = symbol /\ b[1][0] = symbol /\ b[2][0] = symbol
  \/ b[0][1] = symbol /\ b[1][1] = symbol /\ b[2][1] = symbol
  \/ b[0][2] = symbol /\ b[1][2] = symbol /\ b[2][2] = symbol
  \/ b[0][0] = symbol /\ b[1][1] = symbol /\ b[2][2] = symbol
  \/ b[0][2] = symbol /\ b[1][1] = symbol /\ b[2][0] = symbol
NoLine(b) == ~HasLine(b, "X") /\ ~HasLine(b, "O")

\* pos is empty and a mark of symbol on it completes a line
Completes(b, pos, symbol) ==
  /\ At(b, pos) = Empty
  /\ \E L \in Lines : pos \in L /\ \A q \in L \ {pos} : At(b, q) = symbol

\* Boards of alternating play in which neither side has a line: X moves first
AlternatingPlay(b) ==
  /\ MarkCount(b, "X") - MarkCount(b, "O") \in {0, 1}
  /\ NoLine(b)

\* Minimax without cutoffs: the value of b at the given depth for the AI symbol ps
RECURSIVE PlainMinimax(_, _, _, _, _)
PlainMinimax(b, depth, isMaximizing, ps, os) ==
  IF HasLine(b, ps) THEN 10 - depth
  ELSE IF HasLine(b, os) THEN depth - 10
  ELSE IF \A pos \in Positions : At(b, pos) # Empty THEN 0
  ELSE LET values == {PlainMinimax(Put(b, pos, IF isMaximizing THEN ps ELSE os),
                                   depth + 1, ~isMaximizing, ps, os) : pos \in EmptyPositions(b)}
       IN IF isMaximizing
          THEN CHOOSE v \in values : \A w \in values : w <= v
          ELSE CHOOSE v \in values : \A w \in values : v <= w

\* The plain value of the AI's move on pos
PlainScore(b, pos, ps, os) == PlainMinimax(Put(b, pos, ps), 0, FALSE, ps, os)

\* The candidate number (1..n, ascending index order) of position pos on board b
CandidateNumber(b, pos) == Cardinality({q \in EmptyPositions(b) : q <= pos})

(***************************************************************************)
(* C1  Hard never loses.  In every game from the empty board in which the  *)
(* AI side moves by hard getMove and the other side makes any legal moves, *)
(* the other side never has a line, and a finished game is an AI win or a  *)
(* draw (full board, no line), whether the AI plays O or X.                *)
(***************************************************************************)
HardNeverLoses ==
  difficulty = "hard" =>
    /\ ~HasLine(board, opponentSymbol)
    /\ winner # opponentSymbol
    /\ pc = "done" =>
         \/ winner = playerSymbol /\ HasLine(board, playerSymbol)
         \/ winner = Null /\ EmptyPositions(board) = {} /\ NoLine(board)

HardGameWon ==
  difficulty = "hard" /\ pc = "done" /\ playerSymbol = "O" /\ winner = "O"

(***************************************************************************)
(* C2  Pruning equivalence.  On every board of alternating play with no    *)
(* line and an empty cell, for either assignment of the symbols, the hard  *)
(* search returns the move plain minimax picks (the first, in ascending    *)
(* index order, of the moves of greatest plain value) and the score it     *)
(* computed for that move is the move's plain value.                       *)
(***************************************************************************)
PruningEquivalence ==
  (pc = "return" /\ difficulty = "hard" /\ AlternatingPlay(board)) =>
    LET plain == {<<pos, PlainScore(board, pos, playerSymbol, opponentSymbol)>> :
                    pos \in EmptyPositions(board)}
        best == CHOOSE p \in plain :
                  \A q \in plain : q[2] < p[2] \/ (q[2] = p[2] /\ p[1] <= q[1])
    IN /\ Index(move) = best[1]
       /\ scores[CandidateNumber(board, best[1])] = best[2]

PrunedSearchRan ==
  /\ pc = "return" /\ difficulty = "hard" /\ AlternatingPlay(board)
  /\ Cardinality(EmptyPositions(board)) >= 5
  /\ \E i \in 1..Len(scores) : \E j \in 1..Len(scores) : scores[i] # scores[j]

\* The states in which a getMove call of the given difficulty has returned
Returned(d) == pc = "return" /\ difficulty = d

\* The candidate number of the returned move, and the greatest candidate score
MoveNumber == CandidateNumber(board, Index(move))
TopScore == CHOOSE v \in {scores[i] : i \in 1..Len(scores)} :
              \A i \in 1..Len(scores) : scores[i] <= v

WinsNow(b, symbol) == {pos \in Positions : Completes(b, pos, symbol)}

CornerPositions == {0, 2, 6, 8}
EdgePositions == {1, 3, 5, 7}

HardOpensCenter ==
  (Returned("hard") /\ board = EmptyBoard /\ playerSymbol = "O" /\ opponentSymbol = "X")
    => Index(move) = 4

(***************************************************************************)
(* C5  Depth preference.  On a board with no line on which some empty cell *)
(* completes a line of the AI, the hard search returns a cell that         *)
(* completes a line of the AI, also when other cells win later.            *)
(***************************************************************************)
HardWinsAtOnce ==
  (Returned("hard") /\ NoLine(board) /\ WinsNow(board, playerSymbol) # {})
    => Index(move) \in WinsNow(board, playerSymbol)

\* a win at once is returned where an earlier candidate wins two moves later
QuickWinOverSlowWin ==
  /\ Returned("hard") /\ NoLine(board)
  /\ Index(move) \in WinsNow(board, playerSymbol)
  /\ \E i \in 1..(MoveNumber - 1) : scores[i] = 8

(***************************************************************************)
(* C6  Hard blocks.  On a board with no line on which no empty cell        *)
(* completes a line of the AI and exactly one empty cell completes a line  *)
(* of the opponent, the hard search returns that cell.                     *)
(***************************************************************************)
HardBlocks ==
  (/\ Returned("hard") /\ NoLine(board)
   /\ WinsNow(board, playerSymbol) = {}
   /\ Cardinality(WinsNow(board, opponentSymbol)) = 1)
    => WinsNow(board, opponentSymbol) = {Index(move)}

HardBlockedTopRow ==
  /\ Returned("hard") /\ playerSymbol = "O"
  /\ board = fromString(<<"X", "X", "-", "-", "-", "-", "-", "-", "-">>)
  /\ Index(move) = 2

(***************************************************************************)
(* C7  Medium, win outranks block.  On a board with no line on which some  *)
(* empty cell completes a line of the AI, medium getMove returns such a    *)
(* cell, also when the opponent has a cell that completes its line.        *)
(***************************************************************************)
MediumWinOutranksBlock ==
  (Returned("medium") /\ NoLine(board) /\ WinsNow(board, playerSymbol) # {})
    => Index(move) \in WinsNow(board, playerSymbol)

MediumWonNotBlocked ==
  /\ Returned("medium") /\ playerSymbol = "O"
  /\ board = fromString(<<"X", "X", "-", "O", "O", "-", "-", "-", "-">>)
  /\ Index(move) = 5

(***************************************************************************)
(* C8  Medium blocks.  On a board with no line on which no empty cell      *)
(* completes a line of the AI and some empty cell completes a line of the  *)
(* opponent, every move medium getMove can return is a cell that completes *)
(* a line of the opponent.                                                 *)
(***************************************************************************)
MediumBlocks ==
  (/\ Returned("medium") /\ NoLine(board)
   /\ WinsNow(board, playerSymbol) = {}
   /\ WinsNow(board, opponentSymbol) # {})
    => Index(move) \in WinsNow(board, opponentSymbol)

MediumBlockedTopRow ==
  /\ Returned("medium") /\ playerSymbol = "O"
  /\ board = fromString(<<"X", "X", "-", "-", "-", "-", "-", "-", "-">>)
  /\ Index(move) = 2

Flat == gameState._board
History == gameState._moveHistory
Status == gameState._gameStatus

FlatCount(symbol) == Cardinality({pos \in Positions : Flat[pos] = symbol})
FlatFull == \A pos \in Positions : Flat[pos] # Empty
FlatLine(symbol) == \E L \in Lines : \A pos \in L : Flat[pos] = symbol
FlatAnyLine == FlatLine("X") \/ FlatLine("O")

\* The position is none of the nine cells
OutOfBoard(a) ==
  ~(/\ a[1].isInteger /\ a[1].whole \in 0..2
    /\ a[2].isInteger /\ a[2].whole \in 0..2)

\* The position is a cell that holds a mark
Occupied(a) == ~OutOfBoard(a) /\ Flat[a[1].whole * 3 + a[2].whole] # Empty

\* The step is a call of makeMove that threw and changed no field of the object
Rejected == error' # "" /\ gameState' = gameState

MarkCountInvariant ==
  /\ \A pos \in Positions : Flat[pos] \in {Empty, "X", "O"}
  /\ FlatCount("X") - FlatCount("O") \in {0, 1}

RejectedWithXAhead ==
  error = "Cell is already occupied" /\ FlatCount("X") = 3 /\ FlatCount("O") = 2

(***************************************************************************)
(* C18  X goes first and marks alternate.  With no move made (after        *)
(* construction, after resetGame) the current player is X; every accepted  *)
(* makeMove places the mark of the current player on one empty cell; and   *)
(* after an accepted move that does not end the game the current player is *)
(* the other symbol.                                                       *)
(***************************************************************************)
XFirstAndAlternates ==
  /\ [](Len(History) = 0 => gameState._currentPlayer = "X")
  /\ [][Len(History') = Len(History) + 1 =>
          /\ \E pos \in Positions :
               /\ Flat[pos] = Empty
               /\ Flat' = [Flat EXCEPT ![pos] = gameState._currentPlayer]
          /\ History'[Len(History')].player = gameState._currentPlayer
          /\ Status' = "playing" =>
               /\ gameState'._currentPlayer # gameState._currentPlayer
               /\ gameState'._currentPlayer \in {"X", "O"}]_vars

OToMoveAfterThree ==
  Status = "playing" /\ Len(History) = 3 /\ gameState._currentPlayer = "O"

(***************************************************************************)
(* C19  Occupied cells reject new moves.  A makeMove call on an occupied   *)
(* cell, or on a position with a row or col outside 0..2 or not an         *)
(* integer, throws an error and leaves board, current player, status,      *)
(* winner, winning combination and move history unchanged: a step that is  *)
(* not such a rejection is not a makeMove call on such a position.         *)
(***************************************************************************)
OccupiedAndInvalidRejected ==
  [][\/ Rejected
     \/ \A a \in MoveArgs : (Occupied(a) \/ OutOfBoard(a)) => ~MakeMove(a[1], a[2])]_vars

OccupiedCellRejected ==
  error = "Cell is already occupied" /\ Status = "playing" /\ Len(History) = 1

(***************************************************************************)
(* C20  No move after game over.  Once the status is win or draw, every    *)
(* makeMove call on any cell throws an error and changes no field, and a   *)
(* step that changes the status is a resetGame: it gives the state of a    *)
(* new game.                                                               *)
(***************************************************************************)
NoMoveAfterGameOver ==
  [][(Status = "win" \/ Status = "draw") =>
       /\ Rejected \/ \A a \in MoveArgs : ~MakeMove(a[1], a[2])
       /\ gameState' # gameState => gameState' = NewGameState]_vars

MoveRejectedAfterWin ==
  error = "Game is already over" /\ Status = "win" /\ ~FlatFull

(***************************************************************************)
(* C12  getMove called on a terminal board, one on which a symbol holds a  *)
(* complete line (also with empty cells left) or on which no cell is       *)
(* empty, throws an error instead of returning a move.                     *)
(***************************************************************************)
TerminalBoardRaises ==
  (/\ pc # "call"
   /\ HasLine(board, "X") \/ HasLine(board, "O") \/ EmptyPositions(board) = {})
    => pc = "throw" /\ error # ""

(***************************************************************************)
(* C13  getMove throws an error when the AI symbol or the opponent symbol  *)
(* is not one of the marks X and O, at every difficulty.                   *)
(***************************************************************************)
ForeignSymbolRaises ==
  (pc # "call" /\ (playerSymbol \notin {"X", "O"} \/ opponentSymbol \notin {"X", "O"}))
    => pc = "throw" /\ error # ""

(***************************************************************************)
(* C14  Malformed arguments are rejected before a move is selected:        *)
(* getMove throws, and returns no move, when the two symbols are equal,    *)
(* when one of them is missing, and when the board is not 3 rows of 3      *)
(* cells.                                                                  *)
(***************************************************************************)
MalformedArgumentsRaise ==
  (/\ pc # "call"
   /\ \/ playerSymbol = opponentSymbol
      \/ playerSymbol = Empty
      \/ opponentSymbol = Empty
      \/ board \notin AllBoards)
    => pc = "throw" /\ error # "" /\ move = NoMove

ShortRowRaised ==
  /\ pc = "throw" /\ error = "Each row must contain exactly 3 cells"
  /\ playerSymbol = "X" /\ opponentSymbol = "O"

CallerBoardUnchanged ==
  pc # "call" => /\ Len(heap) = 3
                 /\ Deref(heap, CallerBoard) = board

HardSearchedOnCopies ==
  /\ pc = "return" /\ difficulty = "hard"
  /\ Deref(heap, CallerBoard) = board
  /\ Cardinality(EmptyPositions(board)) = 4
  /\ Len(scores) = 4

WinsOnFollowingMove(b, pos, ps, os) ==
  /\ At(b, pos) = Empty
  /\ ~Completes(b, pos, ps)
  /\ EmptyPositions(Put(b, pos, ps)) # {}
  /\ \A q \in EmptyPositions(Put(b, pos, ps)) :
       /\ ~Completes(Put(b, pos, ps), q, os)
       /\ WinsNow(Put(Put(b, pos, ps), q, os), ps) # {}

\* The score the hard search computed for the candidate on position pos
ScoreOf(pos) == scores[CandidateNumber(board, pos)]

(***************************************************************************)
(* C23 as stated: the top-level hard search calls the scorer at depth 1,   *)
(* so on a board with no line a candidate that completes an AI line scores *)
(* 10 - 1 = 9 and a candidate after which the AI wins on its following     *)
(* move scores 10 - 3 = 7.                                                 *)
(***************************************************************************)
CandidatesScoredFromDepthOne ==
  (Returned("hard") /\ NoLine(board)) =>
    \A pos \in EmptyPositions(board) :
      /\ Completes(board, pos, playerSymbol) => ScoreOf(pos) = 9
      /\ WinsOnFollowingMove(board, pos, playerSymbol, opponentSymbol) => ScoreOf(pos) = 7

(***************************************************************************)
(* C23 amended: the top-level hard search calls the scorer at depth 0, so  *)
(* on a board with no line a candidate that completes an AI line scores    *)
(* 10 - 0 = 10 and a candidate after which the AI wins on its following    *)
(* move scores 10 - 2 = 8.                                                 *)
(***************************************************************************)
CandidatesScoredFromDepthZero ==
  (Returned("hard") /\ NoLine(board)) =>
    \A pos \in EmptyPositions(board) :
      /\ Completes(board, pos, playerSymbol) => ScoreOf(pos) = 10
      /\ WinsOnFollowingMove(board, pos, playerSymbol, opponentSymbol) => ScoreOf(pos) = 8

ScoredTenAndEight ==
  /\ Returned("hard") /\ NoLine(board)
  /\ \E pos \in EmptyPositions(board) :
       Completes(board, pos, playerSymbol) /\ ScoreOf(pos) = 10
  /\ \E pos \in EmptyPositions(board) :
       WinsOnFollowingMove(board, pos, playerSymbol, opponentSymbol) /\ ScoreOf(pos) = 8

\* The 8 lines in the fixed line order: rows top to bottom, columns left to
\* right, then the two diagonals
LinesInOrder == << {0, 1, 2}, {3, 4, 5}, {6, 7, 8},
                   {0, 3, 6}, {1, 4, 7}, {2, 5, 8},
                   {0, 4, 8}, {2, 4, 6} >>

\* The numbers of the lines that one mark of symbol completes
OpenLines(b, symbol) ==
  {n \in 1..Len(LinesInOrder) : \E pos \in LinesInOrder[n] : 
     /\ At(b, pos) = Empty
     /\ \A q \in LinesInOrder[n] \ {pos} : At(b, q) = symbol}

\* The empty cell of the first, in line order, of the lines one mark completes
FirstLineCell(b, symbol) ==
  LET first == CHOOSE n \in OpenLines(b, symbol) : \A k \in OpenLines(b, symbol) : n <= k
  IN CHOOSE pos \in LinesInOrder[first] : At(b, pos) = Empty

\* The first, in ascending index order, of the cells that complete a line
FirstCell(b, symbol) ==
  CHOOSE pos \in WinsNow(b, symbol) : \A q \in WinsNow(b, symbol) : pos <= q

InitialGame(u) ==
  /\ u.board = initializeBoard
  /\ u.currentPlayer = "X"
  /\ u.isGameActive
  /\ u.winningCells = NoCells
  /\ u.moveCount = 0

\* v is the initial game with the game mode, the difficulty and the scores of u
RestoredFrom(u, v) ==
  /\ InitialGame(v)
  /\ v.gameMode = u.gameMode
  /\ v.aiDifficulty = u.aiDifficulty
  /\ v.scores = u.scores

\* C21: from every state of the page, UIManager.resetGame (called by the New
\* Game button, and by the mode and difficulty handlers once they have set the
\* selection) leaves an empty board, X to move, an active game, no winning
\* cells and a move count of 0, and the game mode, the difficulty and the
\* scores are those it was called with.
ResetRestoresInitialGame ==
  /\ RestoredFrom(ui, UIManagerResetGame(ui))
  /\ \A mode \in {PVP, PVAI} :
       RestoredFrom([ui EXCEPT !.gameMode = mode],
                    UIManagerResetGame([ui EXCEPT !.gameMode = mode]))
  /\ \A d \in validDifficulties :
       RestoredFrom([ui EXCEPT !.aiDifficulty = d],
                    UIManagerResetGame([ui EXCEPT !.aiDifficulty = d]))

\* The same on the steps of the page: the steps of the three handlers
ResetStepsRestoreInitialGame ==
  [][/\ NewGameButtonClick => RestoredFrom(ui, ui')
     /\ \A mode \in {PVP, PVAI} :
          ModeButtonClick(mode) => RestoredFrom([ui EXCEPT !.gameMode = mode], ui')
     /\ \A d \in validDifficulties :
          DifficultyButtonClick(d) => RestoredFrom([ui EXCEPT !.aiDifficulty = d], ui')]_vars

\* The same for GameState.resetGame: the six fields are those of a new GameState
GameStateResetRestores ==
  [][ResetGame => gameState' = NewGameState]_vars

\* a new game after a finished one, with a mode and a difficulty that are not
\* the constructor's
ResetAfterFinishedGame ==
  /\ InitialGame(ui)
  /\ ScoreSum(ui) > 0
  /\ ui.gameMode = PVAI
  /\ ui.aiDifficulty = "hard"


(***************************************************************************)
(* Clicks and pending callbacks (SpecUI)                                   *)
(***************************************************************************)

\* C25: in Player-vs-AI mode, while a makeAIMove callback is pending, a click
\* on a cell places no mark.
ClickWhilePendingPlacesNoMark ==
  [][\A row \in Idx : \A col \in Idx :
       ui.gameMode = PVAI /\ ui.timers > 0 /\ HandleCellClick(row, col)
         => ui'.board = ui.board]_vars

\* C26: when resetGame has run while a callback was pending (the board is empty
\* and a callback is held), the callback leaves the board empty and X to move.
StaleCallbackPlacesNoMark ==
  [][InitialGame(ui) /\ TimerCallback
       => ui'.board = initializeBoard /\ ui'.currentPlayer = "X"]_vars

\* C27: between two states of a finished game (isGameActive false in both) the
\* board, moveCount and the scores do not change.
FinishedGameIsFrozen ==
  [][~ui.isGameActive /\ ~ui'.isGameActive
       => /\ ui'.board = ui.board
          /\ ui'.moveCount = ui.moveCount
          /\ ui'.scores = ui.scores]_vars


(***************************************************************************)
(* The search of the page (SpecSearch)                                     *)
(***************************************************************************)

\* O is to move on b after alternating play, and neither side has a line
OToMove(b) == MarkCount(b, "X") = MarkCount(b, "O") + 1 /\ NoLine(b)

\* C28: on every board of alternating play with O to move and no line,
\* UIManager.getBestMove (getAIMove at hard) returns the cell that
\* AIPlayer('hard').getMove(board, 'O', 'X') returns.
HardImplementationsAgree ==
  (pc = "return" /\ difficulty = "hard" /\ OToMove(board)) => result.move = move

\* both searches pass the first empty cell by and return the same later one,
\* with six cells to search
AgreeOnLaterCell ==
  /\ pc = "return" /\ difficulty = "hard" /\ OToMove(board)
  /\ Cardinality(EmptyPositions(board)) = 6
  /\ result.move = move
  /\ \E pos \in EmptyPositions(board) : pos < Index(move)

\* C29: every minimax call of the search returned with the board it was
\* entered with, and after getBestMove (getAIMove) this.board is cell for cell
\* the board of the call.
SearchRestoresBoard ==
  pc # "call" => result.restored /\ ui.board = board

\* a search that has written winningCells and left the board as it was
SearchedAndRestored ==
  /\ pc = "moved" /\ difficulty = "hard"
  /\ Cardinality(EmptyPositions(board)) = 6
  /\ ui.winningCells # UIManagerAtCallback(board, difficulty).winningCells
  /\ result.restored /\ ui.board = board

\* C22: at medium difficulty in Player-vs-AI mode, when X has a cell that
\* completes an X line and O has no cell that completes an O line, the move
\* getAIMove returns is a cell that completes an X line.
MediumBlocksInBrowser ==
  (/\ pc = "moved" /\ difficulty = "medium" /\ ui.gameMode = PVAI
   /\ OToMove(board)
   /\ \E pos \in Positions : Completes(board, pos, "X")
   /\ \A pos \in Positions : ~Completes(board, pos, "O"))
    => Completes(board, Index(result.move), "X")


\* What SpecUI takes for the results of getAIMove holds of getAIMove: the move
\* is a result of getRandomMove on the board of the call, and of the fields
\* only winningCells may have changed (easy does not search and changes none).
AIMoveWithinResults ==
  pc = "moved" =>
    LET u == UIManagerAtCallback(board, difficulty)
    IN /\ result.move \in getRandomMove(u)
       /\ ui = [u EXCEPT !.winningCells = ui.winningCells]
       /\ difficulty = "easy" => ui = u

\* The fields of the game in SpecUI are those SpecSearch starts from
PageStateAsAtCallback ==
  LET u == UIManagerAtCallback(ui.board, ui.aiDifficulty)
  IN /\ PageBoard(ui.board)
     /\ ui.currentPlayer = u.currentPlayer
     /\ ui.moveCount = u.moveCount
     /\ ui.isGameActive = u.isGameActive


(***************************************************************************)
(* Coordinate conversion (SpecCoords)                                      *)
(***************************************************************************)

\* n is an integer of 0..(size - 1)
WithinRange(n, size) == n.isInteger /\ n.whole \in 0..(size - 1)

\* C36: indexToCoordinates accepts every index of 0..8 and returns row =
\* index div 3, col = index mod 3; coordinatesToIndex accepts every row and col
\* of 0..2 and returns row * 3 + col; and converting what the other returned
\* gives back the argument, from an index and from coordinates.
CoordinateConversion ==
  /\ (board[1] = "index" /\ WithinRange(board[2], 9)) => pc # "throw"
  /\ (board[1] = "coordinates" /\ WithinRange(board[2], 3) /\ WithinRange(board[3], 3))
       => pc # "throw"
  /\ (pc # "throw" /\ move # NoCoordinates /\ result # NoNumber) =>
       /\ WithinRange(result, 9)
       /\ move.row = Num(result.whole \div 3, TRUE)
       /\ move.col = Num(result.whole % 3, TRUE)
       /\ result = Num(move.row.whole * 3 + move.col.whole, TRUE)
  /\ (pc = "index" /\ board[1] = "index") => result = board[2]
  /\ (pc = "coordinates" /\ board[1] = "coordinates")
       => move = [row |-> board[2], col |-> board[3]]

\* index 5 converted to (1, 2) and back
IndexFiveAndBack ==
  /\ pc = "index"
  /\ board = <<"index", Num(5, TRUE)>>
  /\ move = [row |-> Num(1, TRUE), col |-> Num(2, TRUE)]
  /\ result = Num(5, TRUE)


(***************************************************************************)
(* The move generators (SpecGenerator)                                     *)
(***************************************************************************)

\* indexes is a sequence of the positions of empties, each once, ascending
ExactlyAscending(indexes, empties) ==
  /\ {indexes[k] : k \in DOMAIN indexes} = empties
  /\ \A j \in DOMAIN indexes : \A k \in DOMAIN indexes : j < k => indexes[j] < indexes[k]
  /\ Len(indexes) = 0 <=> empties = {}

\* C35: GameState.getAvailableMoves and AIPlayer._getAvailableMoves return the
\* empty cells of the board, each once, in ascending order of row * 3 + col
\* (with index = row * 3 + col in the entries of GameState), the result is
\* empty exactly when the board is full, and _isBoardFull says so.
GeneratorsReturnEmptyCells ==
  /\ pc = "getAvailableMoves" =>
       /\ ExactlyAscending([k \in DOMAIN result |-> result[k].index],
                           {i \in Positions : gameState._board[i] = EMPTY_CELL})
       /\ \A k \in DOMAIN result :
            /\ result[k].row \in Idx /\ result[k].col \in Idx
            /\ result[k].row * 3 + result[k].col = result[k].index
  /\ pc = "_getAvailableMoves" =>
       /\ ExactlyAscending([k \in DOMAIN result |-> Index(result[k])],
                           EmptyPositions(board))
       /\ \A k \in DOMAIN result : result[k].row \in Idx /\ result[k].col \in Idx
  /\ pc = "_isBoardFull" => result = (EmptyPositions(board) = {})

\* the board 'X-XO-O---' of the tests: the cells 1, 4, 6, 7, 8
FiveCellsAvailable ==
  /\ pc = "getAvailableMoves"
  /\ board = fromString(<<"X", "-", "X", "O", "-", "O", "-", "-", "-">>)
  /\ [k \in DOMAIN result |-> result[k].index] = <<1, 4, 6, 7, 8>>


(***************************************************************************)
(* Serialization (SpecJSON)                                                *)
(***************************************************************************)

\* The six fields of the GameState gs are those of the object state
SameFields(gs, state) ==
  /\ gs._board = state.board
  /\ gs._currentPlayer = state.currentPlayer
  /\ gs._gameStatus = state.gameStatus
  /\ gs._winner = state.winner
  /\ gs._winningCombination = state.winningCombination
  /\ gs._moveHistory = state.moveHistory

\* C34: the object toJSON returns holds the six fields of the GameState it was
\* called on, and the GameState fromJSON was called on with that object holds
\* the same six fields afterwards, without an error: the restored state equals
\* the saved one in board, current player, status, winner, winning
\* combination and move history.
SerializationRoundTrip ==
  /\ pc = "toJSON" => SameFields(gameState, result)
  /\ pc = "fromJSON" => error = "" /\ SameFields(gameState, result)

\* a won game restored: X on row 0 after five moves
WonGameRestored ==
  /\ pc = "fromJSON"
  /\ gameState._gameStatus = STATUS_WIN
  /\ gameState._winner = PLAYER_X
  /\ gameState._winningCombination = <<0, 1, 2>>
  /\ Len(gameState._moveHistory) = 5


(***************************************************************************)
(* Move counts (SpecUI, SpecGame)                                          *)
(***************************************************************************)

\* C31: getMoveCount() of the GameState is the number of X and O on its board,
\* UIManager.moveCount is the number of non-empty cells of this.board, and so
\* moveCount is 9 exactly when the board of the page is full.
MoveCountIsMarks ==
  /\ getMoveCount(gameState)
       = Cardinality({i \in Positions : gameState._board[i] \in {PLAYER_X, PLAYER_O}})
  /\ ui.moveCount = Cardinality({pos \in Positions : At(ui.board, pos) # Empty})
  /\ ui.moveCount = 9 <=> EmptyPositions(ui.board) = {}

\* the page has declared a draw on a full board
PageDrawOnFullBoard ==
  /\ ui.moveCount = 9
  /\ EmptyPositions(ui.board) = {}
  /\ ~ui.isGameActive
  /\ ui.scores.draws = 1

\* a GameState with five moves made
FiveMovesMade ==
  /\ getMoveCount(gameState) = 5
  /\ Cardinality({i \in Positions : gameState._board[i] \in {PLAYER_X, PLAYER_O}}) = 5


(***************************************************************************)
(* Termination of the hard search (SpecStack)                              *)
(***************************************************************************)
EmptyCells(b) == Len(_getAvailableMoves(b))

\* Each _minimax call in progress works on a board with one fewer empty cell than
\* its caller's, its depth argument is the number of _minimax calls around it, and
\* the calls in progress are never more than the empty cells of getMove's board.
CallsDescend ==
  /\ Len(stack) <= EmptyCells(board)
  /\ EmptyCells(board) <= 9
  /\ \A k \in 1..Len(stack) :
       /\ stack[k].depth = k - 1
       /\ stack[k].depth <= EmptyCells(board)
       /\ EmptyCells(stack[k].board)
            = EmptyCells(IF k = 1 THEN board ELSE stack[k - 1].board) - 1

\* getMove has returned a move onto an empty cell of its board
MoveReturned ==
  /\ pc = "return"
  /\ stack = << >>
  /\ move \in {AllCells[k] : k \in 1..9}
  /\ board[move.row][move.col] = Empty

\* C32: the hard search always terminates: every recursive _minimax call works on a
\* board with one fewer empty cell than its caller's, the recursion depth never
\* exceeds the number of empty cells of the root board (at most 9), and getMove
\* returns a move for every board with an empty cell.
HardSearchTerminates ==
  /\ []CallsDescend
  /\ (pc = "call" /\ EmptyCells(board) > 0) ~> MoveReturned
  /\ <>(pc \in {"return", "throw"})

\* the search from a board with three empty cells has returned a move
ThreeCellSearchReturned ==
  /\ EmptyCells(board) = 3
  /\ MoveReturned
  /\ Len(scores) = 3

\* the recursion at its deepest: nine calls in progress, the innermost on a full board
NineCallsDeep ==
  /\ Len(stack) = 9
  /\ stack[9].depth = 8
  /\ _isBoardFull(stack[9].board)

\* Lemma: run call by call, the search returns the move and computes the candidate
\* scores of _getMiniMaxMove.
StackAgreesWithSearch ==
  pc = "return" =>
    \E hard \in {_getMiniMaxMove(board, playerSymbol, opponentSymbol)} :
      move = hard.move /\ scores = hard.scores


(***************************************************************************)
(* The AI's answer to a human move (SpecUI)                                *)
(***************************************************************************)
\* Between the pages u and v exactly one cell has changed, from empty to O
PlacesOneO(u, v) ==
  \E pos \in Positions :
    /\ At(u.board, pos) = Empty
    /\ At(v.board, pos) = "O"
    /\ \A other \in Positions \ {pos} : At(v.board, other) = At(u.board, other)

\* The game has ended, or it is X's turn and the board is enabled
HumanToMoveOrOver(u) ==
  ~u.isGameActive \/ (u.currentPlayer = "X" /\ ~u.boardDisabled)

\* C33: in Player-vs-AI mode the callback that an accepted human move has scheduled
\* places, when its timer fires, exactly one O on an empty cell, after which the
\* game has ended or it is X's turn and the board is enabled.
AIAnswersWithOneO ==
  [][ui.gameMode = PVAI /\ ui.timers > 0 /\ TimerCallback
       => PlacesOneO(ui, ui') /\ HumanToMoveOrOver(ui')]_vars

\* Lemma: a callback that finds the game unfinished and O to move does so.
AIAnswersWhenOToMove ==
  [][ui.gameMode = PVAI /\ ui.isGameActive /\ ui.currentPlayer = "O" /\ TimerCallback
       => PlacesOneO(ui, ui') /\ HumanToMoveOrOver(ui')]_vars

====
